---- MODULE Spec2Model ----
(***************************************************************************)
(* Status engine and save protocol of RevolutionGitRepo                    *)
(* (datalad_revolution/gitrepo.py) and of the rev_save command             *)
(* (datalad_revolution/revsave.py).                                        *)
(*                                                                         *)
(* A repository is a record [head, index, disk, hexsha, msg]:              *)
(*   head, index : path -> entry  (the committed tree and the staging      *)
(*                 area as `git ls-tree` / `git ls-files --stage` list     *)
(*                 them), an entry being [type, sha];                      *)
(*   disk        : path -> what is in the worktree, [kind, c, ok, sub];    *)
(*   hexsha      : id of the current commit, msg its message.              *)
(* A nested repository sits in the `sub` field of the disk entry of its    *)
(* link path and has the same shape.                                       *)
(***************************************************************************)
EXTENDS Integers, Sequences, FiniteSets, TLC

VARIABLES repo, last, nops

vars == <<repo, last, nops>>

\* ------------------------------------------------------------------ bounds
\* number of distinct blob contents / commit ids drawn for the initial state
MaxSha == 2
\* number of operations performed in one run
MaxOps == 2

\* ------------------------------------------------------------------- paths
GM == ".gitmodules"

\* paths that can hold content (tracked or not)
Paths == {GM, "a", "b", "d/x", "s", "t"}

\* "d" is the directory holding "d/x": it is only ever a key of a report
Keys == Paths \cup {"d"}

\* the order in which git lists paths (bytewise sorted)
PathOrder == <<GM, "a", "b", "d", "d/x", "s", "t">>

LinkPaths == {"s", "t"}

\* p is q or lies underneath the directory q (git pathspec matching)
Matches(p, q) == p = q \/ (q = "d" /\ p = "d/x")

\* ----------------------------------------------------------------- entries
NoEntry == [type |-> "none", sha |-> 0]

NoRepo == [hexsha |-> 0]

Absent == [kind |-> "absent", c |-> 0, ok |-> FALSE, sub |-> NoRepo]

FileOn(c) == [kind |-> "file", c |-> c, ok |-> TRUE, sub |-> NoRepo]

\* a symbolic link; ok tells whether its target exists
LinkOn(c, ok) == [kind |-> "symlink", c |-> c, ok |-> ok, sub |-> NoRepo]

\* the empty mount point of a subdataset that is not installed
EmptyDir == [kind |-> "emptydir", c |-> 0, ok |-> TRUE, sub |-> NoRepo]

RepoOn(r) == [kind |-> "repo", c |-> 0, ok |-> TRUE, sub |-> r]

\* pathlib: f.exists() follows symbolic links, f.is_symlink() does not
PathExists(r, f) ==
    IF f = "d" THEN r.disk["d/x"].kind # "absent"
    ELSE /\ r.disk[f].kind # "absent"
         /\ (r.disk[f].kind = "symlink" => r.disk[f].ok)

IsSymlink(r, f) == f # "d" /\ r.disk[f].kind = "symlink"

IsDir(r, f) ==
    IF f = "d" THEN r.disk["d/x"].kind # "absent"
    ELSE r.disk[f].kind \in {"emptydir", "repo"}

\* GitRepo.is_valid_repo: the directory holds a repository
IsValidRepo(r, f) == f # "d" /\ r.disk[f].kind = "repo"

\* what staging the worktree content of a path puts into the index
\* (the object id of a blob is a function of its content, that of a link is
\* the commit checked out in the nested repository)
WtEntry(d) ==
    CASE d.kind = "file" -> [type |-> "file", sha |-> d.c]
      [] d.kind = "symlink" -> [type |-> "symlink", sha |-> d.c]
      [] d.kind = "repo" /\ d.sub.hexsha # 0 ->
            [type |-> "dataset", sha |-> d.sub.hexsha]
      [] OTHER -> NoEntry

\* `git ls-files -m`: index entries whose worktree content differs or is gone.
\* A link counts as changed when the nested repository has another commit
\* checked out; a link without a nested repository, or with one that has no
\* commit, is never changed.
GitModified(r, p) ==
    /\ r.index[p].type # "none"
    /\ \/ r.disk[p].kind = "absent"
       \/ r.disk[p].kind \in {"file", "symlink"} /\ WtEntry(r.disk[p]) # r.index[p]
       \/ /\ r.disk[p].kind = "repo"
          /\ r.disk[p].sub.hexsha # 0
          /\ r.disk[p].sub.hexsha # r.index[p].sha

\* `git ls-files -o`: content on disk that the index does not know
GitOther(r, p) == r.index[p].type = "none" /\ r.disk[p].kind # "absent"

\* with --directory a directory without any tracked content is listed as one
\* entry and not descended into
DirUntracked(r) == GitOther(r, "d/x")

\* ------------------------------------------------------- content enumeration
\* the paths argument of a query: None, or a list of paths
NoPaths == [given |-> FALSE, set |-> {}]

PathList(S) == [given |-> TRUE, set |-> S]

\* `paths if paths else []`: without paths the git call is unrestricted
Selected(p, paths) == paths.set = {} \/ \E q \in paths.set : Matches(p, q)

NoInfo == [has |-> FALSE, type |-> "none", sha |-> 0]

\* the type given to content git does not know (gitrepo.py:132-135)
UntrackedType(r, f) ==
    IF IsDir(r, f) THEN "directory"
    ELSE IF IsSymlink(r, f) THEN "symlink" ELSE "file"

\* the key under which git ls-files -o reports the untracked content at p
OtherKey(r, p, paths, untracked) ==
    IF /\ untracked = "normal"
       /\ p = "d/x"
       /\ (paths.set = {} \/ "d" \in paths.set)
    THEN "d"
    ELSE p

\* WorktreeInfo that lists untracked content in every mode
WorktreeInfoOthers(r, paths, untracked) ==
    [k \in Keys |->
        IF k \in Paths /\ r.index[k].type # "none" /\ Selected(k, paths)
        THEN [has |-> TRUE, type |-> r.index[k].type, sha |-> r.index[k].sha]
        ELSE IF \E p \in Paths : /\ GitOther(r, p)
                                  /\ Selected(p, paths)
                                  /\ OtherKey(r, p, paths, untracked) = k
        THEN [has |-> TRUE, type |-> UntrackedType(r, k), sha |-> 0]
        ELSE NoInfo]

\* get_content_info(paths, ref=None, untracked): `git ls-files --stage -d -m
\* [-o [--directory]]`, one record per listed path
WorktreeInfo(r, paths, untracked) ==
    [k \in Keys |->
        IF k \in Paths /\ r.index[k].type # "none" /\ Selected(k, paths)
        THEN [has |-> TRUE, type |-> r.index[k].type, sha |-> r.index[k].sha]
        ELSE IF /\ untracked # "no"
                /\ \E p \in Paths : /\ GitOther(r, p)
                                    /\ Selected(p, paths)
                                    /\ OtherKey(r, p, paths, untracked) = k
        THEN [has |-> TRUE, type |-> UntrackedType(r, k), sha |-> 0]
        ELSE NoInfo]

\* get_content_info(paths, ref='HEAD'): `git ls-tree HEAD -r`, and when paths
\* were given only the records of exactly these paths are kept
\* (gitrepo.py:140-147)
RefInfo(r, paths) ==
    [k \in Keys |->
        IF /\ k \in Paths
           /\ r.head[k].type # "none"
           /\ Selected(k, paths)
           /\ (paths.given => k \in paths.set)
        THEN [has |-> TRUE, type |-> r.head[k].type, sha |-> r.head[k].sha]
        ELSE NoInfo]

get_content_info(r, paths, ref, untracked) ==
    IF ref = "HEAD" THEN RefInfo(r, paths) ELSE WorktreeInfo(r, paths, untracked)

\* the third git call of status(): `git ls-files -m` on the given paths
ModifiedSet(r, paths) ==
    {p \in Paths : GitModified(r, p) /\ Selected(p, paths)}

\* ------------------------------------------------------------------ status
States == {"clean", "added", "modified", "deleted", "untracked"}

\* a record of a status report; sha = 0 stands for "no gitshasum property"
NoRec == [has |-> FALSE, state |-> "none", type |-> "none", sha |-> 0]

Rec(state, type, sha) == [has |-> TRUE, state |-> state, type |-> type, sha |-> sha]

\* the first loop of status() for a path of the worktree enumeration finds
\* nothing to report: a link that did not change, under ignore_submodules='all'
\* (gitrepo.py:211-213 leaves props = None)
NoProps(f, wt, head, modified, ignore) ==
    /\ wt[f].has /\ head[f].has
    /\ wt[f].sha = head[f].sha /\ f \notin modified
    /\ ignore = "all" /\ wt[f].type = "dataset"

\* Classify with the test on the modified set left out
ClassifyNoModifiedSet(r, f, wt, head, modified, ignore) ==
    IF wt[f].has
    THEN IF ~head[f].has
         THEN IF wt[f].sha # 0
              THEN Rec("added", wt[f].type, wt[f].sha)
              ELSE Rec("untracked", wt[f].type, 0)
         ELSE IF wt[f].sha = head[f].sha
         THEN IF PathExists(r, f) \/ IsSymlink(r, f)
              THEN Rec("clean", wt[f].type, wt[f].sha)
              ELSE Rec("deleted", wt[f].type, 0)
         ELSE IF PathExists(r, f) \/ IsSymlink(r, f)
              THEN Rec("modified", wt[f].type, 0)
              ELSE Rec("deleted", wt[f].type, 0)
    ELSE IF head[f].has
         THEN Rec("deleted", head[f].type, head[f].sha)
         ELSE NoRec

\* Classify with the identity of a staged deletion left out
ClassifyNoIdentity(r, f, wt, head, modified, ignore) ==
    IF wt[f].has
    THEN IF ~head[f].has
         THEN IF wt[f].sha # 0
              THEN Rec("added", wt[f].type, wt[f].sha)
              ELSE Rec("untracked", wt[f].type, 0)
         ELSE IF wt[f].sha = head[f].sha /\ f \notin modified
         THEN IF PathExists(r, f) \/ IsSymlink(r, f)
              THEN Rec("clean", wt[f].type, wt[f].sha)
              ELSE Rec("deleted", wt[f].type, 0)
         ELSE IF PathExists(r, f) \/ IsSymlink(r, f)
              THEN Rec("modified", wt[f].type, 0)
              ELSE Rec("deleted", wt[f].type, 0)
    ELSE IF head[f].has
         THEN Rec("deleted", head[f].type, 0)
         ELSE NoRec

\* Classify without the paths that only HEAD has
ClassifyWorktreeOnly(r, f, wt, head, modified, ignore) ==
    IF wt[f].has
    THEN IF ~head[f].has
         THEN IF wt[f].sha # 0
              THEN Rec("added", wt[f].type, wt[f].sha)
              ELSE Rec("untracked", wt[f].type, 0)
         ELSE IF wt[f].sha = head[f].sha /\ f \notin modified
         THEN IF PathExists(r, f) \/ IsSymlink(r, f)
              THEN Rec("clean", wt[f].type, wt[f].sha)
              ELSE Rec("deleted", wt[f].type, 0)
         ELSE IF PathExists(r, f) \/ IsSymlink(r, f)
              THEN Rec("modified", wt[f].type, 0)
              ELSE Rec("deleted", wt[f].type, 0)
    ELSE NoRec

\* Classify with a record for every path that the worktree lacks
ClassifyAllGone(r, f, wt, head, modified, ignore) ==
    IF wt[f].has
    THEN IF ~head[f].has
         THEN IF wt[f].sha # 0
              THEN Rec("added", wt[f].type, wt[f].sha)
              ELSE Rec("untracked", wt[f].type, 0)
         ELSE IF wt[f].sha = head[f].sha /\ f \notin modified
         THEN IF PathExists(r, f) \/ IsSymlink(r, f)
              THEN Rec("clean", wt[f].type, wt[f].sha)
              ELSE Rec("deleted", wt[f].type, 0)
         ELSE IF PathExists(r, f) \/ IsSymlink(r, f)
              THEN Rec("modified", wt[f].type, 0)
              ELSE Rec("deleted", wt[f].type, 0)
    ELSE Rec("deleted", head[f].type, head[f].sha)

\* gitrepo.py:203-250: the record of one path, from the worktree enumeration,
\* the HEAD enumeration, the modified set and the disk
Classify(r, f, wt, head, modified, ignore) ==
    IF wt[f].has
    THEN IF ~head[f].has
         THEN IF wt[f].sha # 0
              THEN Rec("added", wt[f].type, wt[f].sha)
              ELSE Rec("untracked", wt[f].type, 0)
         ELSE IF wt[f].sha = head[f].sha /\ f \notin modified
         THEN IF PathExists(r, f) \/ IsSymlink(r, f)
              THEN Rec("clean", wt[f].type, wt[f].sha)
              ELSE Rec("deleted", wt[f].type, 0)
         ELSE IF PathExists(r, f) \/ IsSymlink(r, f)
              THEN Rec("modified", wt[f].type, 0)
              ELSE Rec("deleted", wt[f].type, 0)
    ELSE IF head[f].has
         THEN Rec("deleted", head[f].type, head[f].sha)
         ELSE NoRec

\* AnyDirty that takes any record for a change
AnyRecord(st) == \E k \in Keys : st[k].has

AnyDirty(st) == \E k \in Keys : st[k].has /\ st[k].state # "clean"

RECURSIVE status(_, _, _, _)
RECURSIVE Descend(_, _, _, _, _)

\* gitrepo.py:262-284, one subdataset f of the report res = [st, compared,
\* queried] (the report, the links whose commit was compared, the links whose
\* own status was queried): dirty tells that it is to be labelled modified
Visit(res, f, differ, dirty) ==
    [st |-> IF dirty THEN [res.st EXCEPT ![f].state = "modified"] ELSE res.st,
     compared |-> res.compared \cup {f},
     queried |-> IF differ THEN res.queried ELSE res.queried \cup {f}]

\* SubModified without the traversal of the nested repository
SubModifiedCheapOnly(r, f, sha, untracked) == sha # r.disk[f].sub.hexsha

\* gitrepo.py:264-280: is the subdataset at f modified
SubModified(r, f, sha, untracked) ==
    IF sha # r.disk[f].sub.hexsha THEN TRUE
    ELSE AnyDirty(status(r.disk[f].sub, NoPaths, untracked, "other").st)

\* Descend that with ignore_submodules='other' leaves the loop after the
\* first subdataset it looked into, modified or not
RECURSIVE DescendFirstOnly(_, _, _, _, _)
DescendFirstOnly(r, res, i, untracked, ignore) ==
    IF i > Len(PathOrder) THEN res
    ELSE IF ~(/\ res.st[PathOrder[i]].has
              /\ res.st[PathOrder[i]].type = "dataset"
              /\ res.st[PathOrder[i]].state = "clean"
              /\ IsValidRepo(r, PathOrder[i]))
    THEN DescendFirstOnly(r, res, i + 1, untracked, ignore)
    ELSE IF ignore = "other"
    THEN Visit(res, PathOrder[i],
               res.st[PathOrder[i]].sha # r.disk[PathOrder[i]].sub.hexsha,
               SubModified(r, PathOrder[i], res.st[PathOrder[i]].sha, untracked))
    ELSE DescendFirstOnly(r,
            Visit(res, PathOrder[i],
                  res.st[PathOrder[i]].sha # r.disk[PathOrder[i]].sub.hexsha,
                  SubModified(r, PathOrder[i], res.st[PathOrder[i]].sha, untracked)),
            i + 1, untracked, ignore)

\* Descend that never leaves the loop early
RECURSIVE DescendExhaustive(_, _, _, _, _)
DescendExhaustive(r, res, i, untracked, ignore) ==
    IF i > Len(PathOrder) THEN res
    ELSE IF ~(/\ res.st[PathOrder[i]].has
              /\ res.st[PathOrder[i]].type = "dataset"
              /\ res.st[PathOrder[i]].state = "clean"
              /\ IsValidRepo(r, PathOrder[i]))
    THEN DescendExhaustive(r, res, i + 1, untracked, ignore)
    ELSE DescendExhaustive(r,
            Visit(res, PathOrder[i],
                  res.st[PathOrder[i]].sha # r.disk[PathOrder[i]].sub.hexsha,
                  SubModified(r, PathOrder[i], res.st[PathOrder[i]].sha, untracked)),
            i + 1, untracked, ignore)

\* gitrepo.py:255-285: the loop over the subdatasets of a report, from the
\* i-th path on
Descend(r, res, i, untracked, ignore) ==
    IF i > Len(PathOrder) THEN res
    ELSE IF ~(/\ res.st[PathOrder[i]].has
              /\ res.st[PathOrder[i]].type = "dataset"
              /\ res.st[PathOrder[i]].state = "clean"
              /\ IsValidRepo(r, PathOrder[i]))
    THEN Descend(r, res, i + 1, untracked, ignore)
    ELSE IF SubModified(r, PathOrder[i], res.st[PathOrder[i]].sha, untracked)
    THEN IF ignore = "other"
         THEN Visit(res, PathOrder[i],
                    res.st[PathOrder[i]].sha # r.disk[PathOrder[i]].sub.hexsha,
                    TRUE)
         ELSE Descend(r,
                      Visit(res, PathOrder[i],
                            res.st[PathOrder[i]].sha # r.disk[PathOrder[i]].sub.hexsha,
                            TRUE),
                      i + 1, untracked, ignore)
    ELSE Descend(r, Visit(res, PathOrder[i], FALSE, FALSE),
                 i + 1, untracked, ignore)

\* gitrepo.py:203-285 on the three enumerations
Fuse(r, wt, head, modified, untracked, ignore) ==
    IF \E f \in Keys : NoProps(f, wt, head, modified, ignore)
    THEN [raised |-> TRUE, st |-> [f \in Keys |-> NoRec],
          compared |-> {}, queried |-> {}]
    ELSE IF ignore = "all"
    THEN [raised |-> FALSE,
          st |-> [f \in Keys |-> Classify(r, f, wt, head, modified, ignore)],
          compared |-> {}, queried |-> {}]
    ELSE [raised |-> FALSE] @@
         Descend(r,
                 [st |-> [f \in Keys |-> Classify(r, f, wt, head, modified, ignore)],
                  compared |-> {}, queried |-> {}],
                 1, untracked, ignore)

\* RevolutionGitRepo.status(paths, untracked, ignore_submodules).
\* The result is [raised, st, compared, queried]; raised tells that the call
\* ended in an exception (props['state'] with props = None, gitrepo.py:235).
status(r, paths, untracked, ignore) ==
    Fuse(r,
         get_content_info(r, paths, "", untracked),
         get_content_info(r, paths, "HEAD", untracked),
         ModifiedSet(r, paths),
         untracked, ignore)

\* ------------------------------------------------------ the store's commands
\* the keys of S in the order git lists them
RECURSIVE InOrderFrom(_, _)
InOrderFrom(S, i) ==
    IF i > Len(PathOrder) THEN <<>>
    ELSE IF PathOrder[i] \in S
         THEN <<PathOrder[i]>> \o InOrderFrom(S, i + 1)
         ELSE InOrderFrom(S, i + 1)

InOrder(S) == InOrderFrom(S, 1)

\* the content of the link registry that names the links of S
\* (0: no registry file)
GmContent(S) ==
    IF S = {} THEN 0
    ELSE 10 + (IF "s" \in S THEN 1 ELSE 0) + (IF "t" \in S THEN 2 ELSE 0)

GmLinks(c) ==
    {l \in LinkPaths : \E S \in SUBSET LinkPaths : l \in S /\ GmContent(S) = c}

\* add_submodule(path, url=None, name=None) refuses a directory that holds no
\* repository or a repository without a commit
AddSubmoduleFails(r, p) ==
    p \notin Paths \/ r.disk[p].kind # "repo" \/ r.disk[p].sub.hexsha = 0

\* add_submodule: the link is staged with the commit of the nested
\* repository, and the registry file is rewritten and staged
AddSubmodule(r, p) ==
    LET gm == GmContent(GmLinks(r.disk[GM].c) \cup {p})
    IN  [r EXCEPT !.index = [@ EXCEPT ![p] = WtEntry(r.disk[p]),
                                      ![GM] = [type |-> "file", sha |-> gm]],
                  !.disk = [@ EXCEPT ![GM] = FileOn(gm)]]

\* `git add -- files` (gitrepo.py:428-433): the worktree content of every
\* path at or under one of the files is staged
GitAdd(r, files) ==
    [r EXCEPT !.index =
        [p \in Paths |->
            IF /\ \E k \in files : Matches(p, k)
               /\ WtEntry(r.disk[p]) # NoEntry
            THEN WtEntry(r.disk[p])
            ELSE r.index[p]]]

\* a directory that is to be a link but has no commit checked out: git
\* refuses to stage it ("does not have a commit checked out")
NoCommit(d) == d.kind = "emptydir" \/ (d.kind = "repo" /\ d.sub.hexsha = 0)

\* `git add` fails on a directory it does not know yet that holds a
\* repository without a commit
GitAddFails(r, files) ==
    \E p \in Paths : /\ \E k \in files : Matches(p, k)
                     /\ r.index[p].type = "none"
                     /\ r.disk[p].kind = "repo"
                     /\ r.disk[p].sub.hexsha = 0

\* `git rm -- files` (gitrepo.py:455-458): gone from the index and the disk
GitRemove(r, files) ==
    [r EXCEPT !.index = [p \in Paths |->
                            IF p \in files THEN NoEntry ELSE r.index[p]],
              !.disk = [p \in Paths |->
                            IF p \in files THEN Absent ELSE r.disk[p]]]

\* the paths `git commit -- files` takes: those known to the index or to HEAD
\* at or under one of the files
CommitPaths(r, files) ==
    {p \in Paths : /\ r.index[p].type # "none" \/ r.head[p].type # "none"
                   /\ \E k \in files : Matches(p, k)}

\* the entry `git commit -- files` records for a path it takes: the content
\* of the worktree, or nothing when the path is gone from the disk
CommitEntry(r, p) ==
    IF r.disk[p].kind = "absent" THEN NoEntry
    ELSE IF WtEntry(r.disk[p]) # NoEntry THEN WtEntry(r.disk[p])
    ELSE r.index[p]

\* `git commit -- files` fails when it is to take a link path without a
\* checked out commit; this is not the refusal that careless=True swallows
GitCommitFails(r, files) ==
    \E p \in CommitPaths(r, files) : NoCommit(r.disk[p])

\* commit(files, msg, careless=True) (gitrepo.py:320-329): a commit of HEAD
\* with the taken paths replaced; when that changes nothing git refuses, the
\* index is left as it was and the refusal is swallowed
GitCommit(r, files, msg) ==
    LET taken == CommitPaths(r, files)
        tree == [p \in Paths |->
                    IF p \in taken THEN CommitEntry(r, p) ELSE r.head[p]]
    IN  IF tree = r.head THEN r
        ELSE [r EXCEPT !.head = tree,
                       !.index = [p \in Paths |->
                                    IF p \in taken THEN tree[p] ELSE r.index[p]],
                       !.hexsha = r.hexsha + 1,
                       !.msg = msg]

\* -------------------------------------------------------------------- save
\* no _status argument
NoStatus == [given |-> FALSE, st |-> [k \in Keys |-> NoRec]]

GivenStatus(st) == [given |-> TRUE, st |-> st]

EmptyMap == [k \in Keys |-> NoRec]

KeysOf(st) == {k \in Keys : st[k].has}

DefaultMessage == "Recorded changes"

\* gitrepo.py:302-305: the entries that are not clean
NotClean(st) ==
    [k \in Keys |-> IF st[k].has /\ st[k].state # "clean" THEN st[k] ELSE NoRec]

\* gitrepo.py:302-306 on the outcome of status()
Actionable(got) == [raised |-> got.raised, none |-> FALSE, st |-> NotClean(got.st)]

\* _save_pre (gitrepo.py:287-306). kw = [untracked, ignore], "" for a keyword
\* that was not passed. The result is [raised, none, st]: none tells that the
\* helper returned None.
_save_pre(r, paths, _status, kw) ==
    IF paths.given /\ paths.set = {} /\ (~_status.given \/ KeysOf(_status.st) = {})
    THEN [raised |-> FALSE, none |-> TRUE, st |-> EmptyMap]
    ELSE IF _status.given
    THEN [raised |-> FALSE, none |-> FALSE, st |-> NotClean(_status.st)]
    ELSE Actionable(status(r, paths,
                           IF kw.untracked = "" THEN "normal" ELSE kw.untracked,
                           IF kw.ignore = "" THEN "no" ELSE kw.ignore))

\* gitrepo.py:391-393: the untracked directories of a report
UntrackedDirs(st) ==
    {f \in Keys : st[f].has /\ st[f].state = "untracked" /\ st[f].type = "directory"}

\* gitrepo.py:388-398: the directories to register as links
DirectoriesOf(info) == {sm \in Keys : info[sm].has /\ info[sm].type = "directory"}

to_add_submodules(r, st) ==
    InOrder(DirectoriesOf(
        get_content_info(r, PathList(UntrackedDirs(st)), "", "all")))

\* gitrepo.py:400-414: the registration loop from the i-th candidate on;
\* acc = [raised, repo, results, log, added, st]. results are the results
\* yielded so far; log are the commands that changed the store so far, each
\* with the number of results that had been yielded when it ran (at)
RECURSIVE RegisterFrom(_, _, _)
RegisterFrom(acc, cands, i) ==
    IF i > Len(cands) THEN acc
    ELSE IF AddSubmoduleFails(acc.repo, cands[i])
    THEN RegisterFrom(
            [acc EXCEPT !.results = Append(@,
                [action |-> "add_submodule", path |-> cands[i],
                 status |-> "error"])],
            cands, i + 1)
    ELSE RegisterFrom(
            [acc EXCEPT !.repo = AddSubmodule(acc.repo, cands[i]),
                        !.log = Append(@, [op |-> "add_submodule", at |-> Len(acc.results),
                                           files |-> {cands[i]}]),
                        !.added = TRUE],
            cands, i + 1)

\* MarkRegistry that marks the registry file whether a link was registered
\* or not
MarkRegistryAlways(acc) ==
    [acc EXCEPT !.st = [@ EXCEPT ![GM] = Rec("modified", "file", 0)]]

\* gitrepo.py:415-418: the registry file is to be saved as well
MarkRegistry(acc) ==
    IF acc.added
    THEN [acc EXCEPT !.st = [@ EXCEPT ![GM] = Rec("modified", "file", 0)]]
    ELSE acc

\* to_add with every record of the report
to_addAll(st) == {f \in Keys : st[f].has}

\* gitrepo.py:419-424
to_add(st) == {f \in Keys : st[f].has /\ st[f].state \in {"modified", "untracked"}}

\* to_remove with the removals that are staged already
to_removeAll(st) == {f \in Keys : st[f].has /\ st[f].state = "deleted"}

\* gitrepo.py:444-453
to_remove(st) == {f \in Keys : st[f].has /\ st[f].state = "deleted" /\ st[f].sha = 0}

\* one `ok` result per path `git add --verbose` reports as staged
AddResults(before, after) ==
    [i \in 1..Cardinality({p \in Paths : after.index[p] # before.index[p]}) |->
        [action |-> "add",
         path |-> InOrder({p \in Paths : after.index[p] # before.index[p]})[i],
         status |-> "ok"]]

\* gitrepo.py:454-460: what remove() returns is yielded as it is, the bare
\* path of each removed file; such a result carries no outcome
RemoveResults(files) ==
    [i \in 1..Cardinality(files) |->
        [action |-> "remove", path |-> InOrder(files)[i], status |-> ""]]

\* gitrepo.py:425-442
Added(acc, files, after) ==
    [acc EXCEPT !.repo = after,
                !.results = @ \o AddResults(acc.repo, after),
                !.log = Append(@, [op |-> "add", at |-> Len(acc.results),
                                        files |-> files])]

StageAdditions(acc) ==
    IF to_add(acc.st) = {} THEN acc
    ELSE IF GitAddFails(acc.repo, to_add(acc.st))
    THEN [acc EXCEPT !.raised = TRUE,
                     !.log = Append(@, [op |-> "add", at |-> Len(acc.results),
                                        files |-> to_add(acc.st)])]
    ELSE Added(acc, to_add(acc.st), GitAdd(acc.repo, to_add(acc.st)))

\* StageRemovals that commits the removals before it yields their results
StageRemovalsCommitted(acc) ==
    IF acc.raised \/ to_remove(acc.st) = {} THEN acc
    ELSE [acc EXCEPT !.repo = GitCommit(GitRemove(acc.repo, to_remove(acc.st)),
                                        to_remove(acc.st), DefaultMessage),
                     !.results = @ \o RemoveResults(to_remove(acc.st)),
                     !.log = @ \o <<[op |-> "remove", at |-> Len(acc.results),
                                     files |-> to_remove(acc.st)],
                                    [op |-> "commit", at |-> Len(acc.results),
                                     files |-> to_remove(acc.st)]>>]

\* gitrepo.py:454-460
StageRemovals(acc) ==
    IF acc.raised \/ to_remove(acc.st) = {} THEN acc
    ELSE [acc EXCEPT !.repo = GitRemove(acc.repo, to_remove(acc.st)),
                     !.results = @ \o RemoveResults(to_remove(acc.st)),
                     !.log = Append(@, [op |-> "remove", at |-> Len(acc.results),
                                        files |-> to_remove(acc.st)])]

\* _save_post that commits the staged paths only
_save_postStaged(acc, message) ==
    IF acc.raised \/ KeysOf(acc.st) = {} THEN acc
    ELSE [acc EXCEPT !.repo = GitCommit(acc.repo,
                                        to_add(acc.st) \cup to_remove(acc.st),
                                        IF message = "" THEN DefaultMessage
                                        ELSE message),
                     !.log = Append(@, [op |-> "commit", at |-> Len(acc.results),
                                        files |-> to_add(acc.st) \cup to_remove(acc.st)])]

\* _save_post that always commits with the default message
_save_postDefault(acc, message) ==
    IF acc.raised \/ KeysOf(acc.st) = {} THEN acc
    ELSE IF GitCommitFails(acc.repo, KeysOf(acc.st))
    THEN [acc EXCEPT !.raised = TRUE,
                     !.log = Append(@, [op |-> "commit", at |-> Len(acc.results),
                                        files |-> KeysOf(acc.st)])]
    ELSE [acc EXCEPT !.repo = GitCommit(acc.repo, KeysOf(acc.st), DefaultMessage),
                     !.log = Append(@, [op |-> "commit", at |-> Len(acc.results),
                                        files |-> KeysOf(acc.st)])]

\* _save_post (gitrepo.py:308-329)
_save_post(acc, message) ==
    IF acc.raised \/ KeysOf(acc.st) = {} THEN acc
    ELSE IF GitCommitFails(acc.repo, KeysOf(acc.st))
    THEN [acc EXCEPT !.raised = TRUE,
                     !.log = Append(@, [op |-> "commit", at |-> Len(acc.results),
                                        files |-> KeysOf(acc.st)])]
    ELSE [acc EXCEPT !.repo = GitCommit(acc.repo, KeysOf(acc.st),
                                        IF message = "" THEN DefaultMessage
                                        ELSE message),
                     !.log = Append(@, [op |-> "commit", at |-> Len(acc.results),
                                        files |-> KeysOf(acc.st)])]

\* SaveFrom without the early return on an empty report
SaveFromAlways(r, pre, message) ==
    IF pre.raised \/ pre.none
    THEN [raised |-> pre.raised, repo |-> r, results |-> <<>>, log |-> <<>>,
          added |-> FALSE, st |-> pre.st]
    ELSE _save_post(
            StageRemovals(
                StageAdditions(
                    MarkRegistry(
                        RegisterFrom(
                            [raised |-> FALSE, repo |-> r, results |-> <<>>,
                             log |-> <<>>, added |-> FALSE, st |-> pre.st],
                            to_add_submodules(r, pre.st), 1)))),
            message)

\* gitrepo.py:376-462, given the outcome of _save_pre
SaveFrom(r, pre, message) ==
    IF pre.raised \/ pre.none \/ KeysOf(pre.st) = {}
    THEN [raised |-> pre.raised, repo |-> r, results |-> <<>>, log |-> <<>>,
          added |-> FALSE, st |-> pre.st]
    ELSE _save_post(
            StageRemovals(
                StageAdditions(
                    MarkRegistry(
                        RegisterFrom(
                            [raised |-> FALSE, repo |-> r, results |-> <<>>,
                             log |-> <<>>, added |-> FALSE, st |-> pre.st],
                            to_add_submodules(r, pre.st), 1)))),
            message)

\* save_ (gitrepo.py:374-464), run to the end of its result stream.
\* The result is [raised, repo, results, log, added, st]: raised tells that
\* the call ended in an exception, st is the working status, log the commands
\* issued to the store.
save_(r, message, paths, _status, kw) ==
    SaveFrom(r, _save_pre(r, paths, _status, kw), message)

\* ---------------------------------------------------------- initial states
EmptyTree == [p \in Paths |-> NoEntry]

EmptyDisk == [p \in Paths |-> Absent]

BlobEntry(type, sha) == IF sha = 0 THEN NoEntry ELSE [type |-> type, sha |-> sha]

\* a repository without links, with the one file "a" in state <<head, index,
\* disk>> (0: not there, c > 0: the content) and commit h checked out
LeafRepo(h, fa) ==
    [head |-> [EmptyTree EXCEPT !["a"] = BlobEntry("file", fa[1])],
     index |-> [EmptyTree EXCEPT !["a"] = BlobEntry("file", fa[2])],
     disk |-> [EmptyDisk EXCEPT !["a"] = IF fa[3] = 0 THEN Absent ELSE FileOn(fa[3])],
     hexsha |-> h,
     msg |-> "init"]

\* a clean repository whose link "s" holds the repository sub
WithLink(h, sub) ==
    LET gm == GmContent({"s"})
        e == [type |-> "dataset", sha |-> sub.hexsha]
        f == [type |-> "file", sha |-> gm]
    IN  [head |-> [EmptyTree EXCEPT !["s"] = e, ![GM] = f],
         index |-> [EmptyTree EXCEPT !["s"] = e, ![GM] = f],
         disk |-> [EmptyDisk EXCEPT !["s"] = RepoOn(sub), ![GM] = FileOn(gm)],
         hexsha |-> h,
         msg |-> "init"]

\* the states of a nested repository with commit h checked out: clean, with
\* a modified file, with an untracked file, and clean but for an untracked
\* file in a repository nested one level further down
NestedRepos(h) ==
    {LeafRepo(h, <<1, 1, 1>>),
     LeafRepo(h, <<1, 1, 2>>),
     LeafRepo(h, <<0, 0, 1>>),
     WithLink(h, LeafRepo(1, <<0, 0, 1>>))}

\* the states <<head, index, disk>> of the regular file "a"
FileStates == (0..1) \X (0..MaxSha) \X (0..MaxSha)

\* the states of "b", a symbolic link or an untracked file: <<head, index,
\* disk entry>>
SymlinkStates ==
    {<<0, 0, Absent>>,
     <<0, 0, FileOn(1)>>,
     <<0, 0, LinkOn(1, FALSE)>>,
     <<1, 1, LinkOn(1, FALSE)>>,
     <<1, 1, LinkOn(2, TRUE)>>,
     <<1, 1, Absent>>}

\* the states of "d/x", the only file of the directory "d"
DirFileStates == {<<0, 0, 0>>, <<0, 0, 1>>, <<1, 0, 1>>, <<1, 1, 1>>}

\* the states <<head, index, disk entry>> of the link path "s": nothing, an
\* untracked repository, a staged new link, a committed link (staged or not
\* at another commit, the nested repository at any commit and in any state),
\* a committed link that is not installed, and a committed link whose
\* directory holds a repository without a commit
LinkStates ==
    {<<0, 0, Absent>>}
    \cup {<<0, 0, RepoOn(n)>> : n \in NestedRepos(1)}
    \cup {<<0, 1, RepoOn(n)>> : n \in UNION {NestedRepos(h) : h \in 1..MaxSha}}
    \cup {<<1, i, RepoOn(n)>> :
            i \in 1..MaxSha, n \in UNION {NestedRepos(h) : h \in 1..MaxSha}}
    \cup {<<1, 1, EmptyDir>>, <<1, 1, RepoOn(LeafRepo(0, <<0, 0, 1>>))>>}

\* the states of the second link path "t"
OtherLinkStates ==
    {<<0, 0, Absent>>,
     <<0, 0, RepoOn(LeafRepo(1, <<1, 1, 1>>))>>,
     <<1, 1, RepoOn(LeafRepo(1, <<0, 0, 1>>))>>}

\* the repository made of these path states; the link registry names the
\* links of HEAD in HEAD, and those of the index in the index and on disk
MkRepo(fa, fb, fd, ls, lt) ==
    LET gmh == GmContent({l \in LinkPaths :
                    (l = "s" /\ ls[1] # 0) \/ (l = "t" /\ lt[1] # 0)})
        gmi == GmContent({l \in LinkPaths :
                    (l = "s" /\ ls[2] # 0) \/ (l = "t" /\ lt[2] # 0)})
    IN  [head |-> [p \in Paths |->
            CASE p = "a" -> BlobEntry("file", fa[1])
              [] p = "b" -> BlobEntry("symlink", fb[1])
              [] p = "d/x" -> BlobEntry("file", fd[1])
              [] p = "s" -> BlobEntry("dataset", ls[1])
              [] p = "t" -> BlobEntry("dataset", lt[1])
              [] OTHER -> BlobEntry("file", gmh)],
         index |-> [p \in Paths |->
            CASE p = "a" -> BlobEntry("file", fa[2])
              [] p = "b" -> BlobEntry("symlink", fb[2])
              [] p = "d/x" -> BlobEntry("file", fd[2])
              [] p = "s" -> BlobEntry("dataset", ls[2])
              [] p = "t" -> BlobEntry("dataset", lt[2])
              [] OTHER -> BlobEntry("file", gmi)],
         disk |-> [p \in Paths |->
            CASE p = "a" -> IF fa[3] = 0 THEN Absent ELSE FileOn(fa[3])
              [] p = "b" -> fb[3]
              [] p = "d/x" -> IF fd[3] = 0 THEN Absent ELSE FileOn(fd[3])
              [] p = "s" -> ls[3]
              [] p = "t" -> lt[3]
              [] OTHER -> IF gmi = 0 THEN Absent ELSE FileOn(gmi)],
         hexsha |-> 1,
         msg |-> "init"]

\* The initial repositories: each family lets some paths take every state
\* while the other paths take a few.
FileFamily ==
    {MkRepo(fa, fb, fd, ls, <<0, 0, Absent>>) :
        fa \in FileStates,
        fb \in {<<0, 0, Absent>>, <<1, 1, LinkOn(1, FALSE)>>},
        fd \in {<<0, 0, 0>>, <<0, 0, 1>>},
        ls \in {<<0, 0, Absent>>,
                <<0, 0, RepoOn(LeafRepo(1, <<1, 1, 1>>))>>,
                <<1, 1, RepoOn(LeafRepo(1, <<1, 1, 1>>))>>}}

LinkFamily ==
    {MkRepo(fa, <<0, 0, Absent>>, fd, ls, lt) :
        fa \in {<<1, 1, 1>>, <<1, 1, 2>>},
        fd \in {<<0, 0, 0>>, <<0, 0, 1>>},
        ls \in LinkStates,
        lt \in OtherLinkStates}

SymlinkFamily ==
    {MkRepo(fa, fb, fd, ls, <<0, 0, Absent>>) :
        fa \in {<<0, 0, 0>>, <<1, 1, 1>>, <<1, 1, 0>>, <<1, 0, 0>>, <<0, 1, 1>>},
        fb \in SymlinkStates,
        fd \in DirFileStates,
        ls \in {<<0, 0, Absent>>, <<0, 0, RepoOn(LeafRepo(1, <<1, 1, 1>>))>>}}

\* an untracked directory "s" that holds a repository without a commit, which
\* cannot be registered as a link, next to a second untracked repository
RegistrationFamily ==
    {MkRepo(fa, <<0, 0, Absent>>, fd, <<0, 0, RepoOn(LeafRepo(0, <<0, 0, 1>>))>>, lt) :
        fa \in {<<1, 1, 1>>, <<1, 1, 2>>, <<1, 1, 0>>},
        fd \in {<<0, 0, 0>>, <<0, 0, 1>>},
        lt \in {<<0, 0, Absent>>, <<0, 0, RepoOn(LeafRepo(1, <<1, 1, 1>>))>>}}

InitRepos == FileFamily \cup LinkFamily \cup SymlinkFamily \cup RegistrationFamily

\* -------------------------------------------------------------- operations
Modes == {"no", "normal", "all"}

IgnoreModes == {"no", "other", "all"}

NoKw == [untracked |-> "", ignore |-> ""]

\* what is remembered of the last operation
NoOp ==
    [op |-> "none", paths |-> NoPaths, kw |-> NoKw, given |-> "none",
     updated |-> FALSE, message |-> "", pre |-> NoRepo, raised |-> FALSE,
     st |-> EmptyMap, compared |-> {}, queried |-> {}, results |-> <<>>,
     log |-> <<>>, again |-> FALSE]

Init ==
    /\ repo \in InitRepos
    /\ last = NoOp
    /\ nops = 0

StatusRecord(paths, u, ig, pre, res) ==
    [NoOp EXCEPT !.op = "status",
                 !.paths = paths,
                 !.kw = [untracked |-> u, ignore |-> ig],
                 !.pre = pre,
                 !.raised = res.raised,
                 !.st = res.st,
                 !.compared = res.compared,
                 !.queried = res.queried]

\* the paths argument of a status query: none, a file, a directory, a file
\* in a directory
StatusPaths == {NoPaths, PathList({"a"}), PathList({"d"}), PathList({"d/x"})}

\* repo.status(paths=paths, untracked=u, ignore_submodules=ig)
StatusOp(paths, u, ig) ==
    /\ nops = 0
    /\ last' = StatusRecord(paths, u, ig, repo, status(repo, paths, u, ig))
    /\ nops' = nops + 1
    /\ UNCHANGED repo

\* the _status argument of a save: none, an empty map, or the report of
\* status(untracked='all')
StatusArg(r, given) ==
    CASE given = "none" -> NoStatus
      [] given = "empty" -> GivenStatus(EmptyMap)
      [] OTHER -> GivenStatus(status(r, NoPaths, "all", "no").st)

\* the calls of repo.save(): <<paths, _status, keywords>>
SaveCalls ==
    {<<NoPaths, "none", NoKw>>,
     <<NoPaths, "none", [untracked |-> "all", ignore |-> ""]>>,
     <<NoPaths, "none", [untracked |-> "no", ignore |-> ""]>>,
     <<NoPaths, "none", [untracked |-> "", ignore |-> "other"]>>,
     <<NoPaths, "none", [untracked |-> "", ignore |-> "all"]>>,
     <<PathList({}), "empty", NoKw>>,
     <<NoPaths, "empty", NoKw>>,
     <<NoPaths, "full", NoKw>>,
     <<PathList({"a"}), "full", NoKw>>,
     <<PathList({"a"}), "none", NoKw>>,
     <<PathList({"d"}), "none", NoKw>>}

\* the message argument of a save: none, or a message
Messages == {"", "M"}

\* the record of a save and of its outcome
SaveRecord(op, paths, given, kw, updated, message, again, pre, out) ==
    [NoOp EXCEPT !.op = op,
                 !.paths = paths,
                 !.kw = kw,
                 !.given = given,
                 !.updated = updated,
                 !.message = message,
                 !.pre = pre,
                 !.raised = out.raised,
                 !.st = out.st,
                 !.results = out.results,
                 !.log = out.log,
                 !.again = again]

Outcome(op, paths, given, kw, updated, message, again, out) ==
    /\ repo' = out.repo
    /\ last' = SaveRecord(op, paths, given, kw, updated, message, again, repo, out)
    /\ nops' = nops + 1

Saved(op, paths, given, kw, updated, message, again) ==
    Outcome(op, paths, given, kw, updated, message, again,
            save_(repo, message, paths, StatusArg(repo, given), kw))

\* repo.save(paths=.., _status=.., **kw) (gitrepo.py:331-372)
SaveOp(call, message) ==
    /\ nops = 0
    /\ Saved("save", call[1], call[2], call[3], FALSE, message, FALSE)

\* rev_save(updated=..) (revsave.py:119-190): the stream of
\* repo.save_(message, paths=None, untracked='no' if updated else 'normal')
RevSaveOp(updated) ==
    /\ nops = 0
    /\ Saved("rev_save", NoPaths, "none",
             [untracked |-> IF updated THEN "no" ELSE "normal", ignore |-> ""],
             updated, "", FALSE)

\* the same save once more, nothing having changed in between
SaveAgain ==
    /\ nops \in 1..(MaxOps - 1)
    /\ last.op \in {"save", "rev_save"}
    /\ ~last.raised
    /\ Saved(last.op, last.paths, last.given, last.kw, last.updated,
             last.message, TRUE)

Next ==
    \/ \E paths \in StatusPaths, u \in Modes, ig \in IgnoreModes :
            StatusOp(paths, u, ig)
    \/ \E call \in SaveCalls, message \in Messages : SaveOp(call, message)
    \/ \E updated \in BOOLEAN : RevSaveOp(updated)
    \/ SaveAgain

Spec == Init /\ [][Next]_vars

\* ============================================================= diff engine
\* The diff command compares two endpoints of a dataset. A repository that
\* takes part in a diff also carries its history: hist[h] is the tree of the
\* commit h, and hexsha is the commit that is checked out.

\* a reference is a name, or the id of a commit
RefName(n) == [name |-> n, sha |-> 0]

RefSha(h) == [name |-> "", sha |-> h]

\* to=None: the worktree is the endpoint
None == RefName("None")

\* datalad.consts.PRE_INIT_COMMIT_SHA, the id of the empty tree, which every
\* repository resolves
PRE_INIT_COMMIT_SHA == RefName("4b825dc642cb6eb9a060e54bf8d69288fbee4904")

NoTree == [ok |-> FALSE, tree |-> [p \in Paths |-> NoEntry]]

TreeAt(r, h) ==
    IF h \in 1..Len(r.hist) THEN [ok |-> TRUE, tree |-> r.hist[h]] ELSE NoTree

\* the tree a reference names in the repository r, if it names one
Resolve(r, ref) ==
    IF ref = PRE_INIT_COMMIT_SHA THEN [ok |-> TRUE, tree |-> NoTree.tree]
    ELSE IF ref.name = "HEAD" THEN TreeAt(r, r.hexsha)
    ELSE IF ref.name = "HEAD~1" THEN TreeAt(r, r.hexsha - 1)
    ELSE IF ref.name = "" THEN TreeAt(r, ref.sha)
    ELSE NoTree

\* the enumeration of an endpoint: of the worktree, or of a tree
EndpointInfo(r, ref, paths, untracked) ==
    IF ref = None THEN get_content_info(r, paths, "", untracked)
    ELSE RefInfo([head |-> Resolve(r, ref).tree], paths)

\* a record of a diff report: sha is the identity at the `to` endpoint
\* (gitshasum), prev the identity at the `from` endpoint (prev_gitshasum);
\* 0 stands for a property that the record does not have
NoDiffRec == [has |-> FALSE, state |-> "none", type |-> "none", sha |-> 0, prev |-> 0]

DiffRec(state, type, sha, prev) ==
    [has |-> TRUE, state |-> state, type |-> type, sha |-> sha, prev |-> prev]

\* the classification of one path from the two enumerations and the modified
\* set; content of a tree is there, content of the worktree is looked up on
\* disk
DiffClassify(r, f, to, to_info, from_info, modified) ==
    IF to_info[f].has
    THEN IF ~from_info[f].has
         THEN IF to_info[f].sha # 0
              THEN DiffRec("added", to_info[f].type, to_info[f].sha, 0)
              ELSE DiffRec("untracked", to_info[f].type, 0, 0)
         ELSE IF to_info[f].sha = from_info[f].sha /\ f \notin modified
         THEN IF to # None \/ PathExists(r, f) \/ IsSymlink(r, f)
              THEN DiffRec("clean", to_info[f].type, to_info[f].sha,
                           from_info[f].sha)
              ELSE DiffRec("deleted", to_info[f].type, 0, from_info[f].sha)
         ELSE IF to # None \/ PathExists(r, f) \/ IsSymlink(r, f)
              THEN DiffRec("modified", to_info[f].type, to_info[f].sha,
                           from_info[f].sha)
              ELSE DiffRec("deleted", to_info[f].type, 0, from_info[f].sha)
    ELSE IF from_info[f].has
         THEN DiffRec("deleted", from_info[f].type, 0, from_info[f].sha)
         ELSE NoDiffRec

NoDiff == [f \in Keys |-> NoDiffRec]

\* the report on two resolvable endpoints; against the worktree the links
\* that did not change are looked into as status() does
DiffReport(r, to, to_info, from_info, modified, untracked, ignore) ==
    IF to = None /\ ignore # "all"
    THEN Descend(r,
                 [st |-> [f \in Keys |->
                            DiffClassify(r, f, to, to_info, from_info, modified)],
                  compared |-> {}, queried |-> {}],
                 1, untracked, ignore).st
    ELSE [f \in Keys |->
            IF /\ ignore = "all" /\ to_info[f].type = "dataset"
               /\ from_info[f].has /\ to_info[f].sha = from_info[f].sha
               /\ f \notin modified
            THEN NoDiffRec
            ELSE DiffClassify(r, f, to, to_info, from_info, modified)]

\* diffstatus(fr, to, paths, untracked, ignore_submodules): [raised, invalid,
\* st]; raised tells that a ValueError names the reference `invalid`
diffstatus(r, fr, to, paths, untracked, ignore) ==
    IF ~Resolve(r, fr).ok
    THEN [raised |-> TRUE, invalid |-> fr, st |-> NoDiff]
    ELSE IF to # None /\ ~Resolve(r, to).ok
    THEN [raised |-> TRUE, invalid |-> to, st |-> NoDiff]
    ELSE [raised |-> FALSE, invalid |-> None,
          st |-> DiffReport(r, to,
                            EndpointInfo(r, to, paths, untracked),
                            EndpointInfo(r, fr, paths, untracked),
                            IF to = None THEN ModifiedSet(r, paths) ELSE {},
                            untracked, ignore)]

\* ----------------------------------------------------------- diff command
\* the path of the dataset that is diffed
Root == "/ds"

Join(dir, f) == dir \o "/" \o f

\* Dataset(path): the dataset at the path f of the dataset ds; its repo is
\* None unless the path holds a repository (dataset.py:38-75)
Dataset(ds, f) ==
    [path |-> Join(ds.path, f),
     valid |-> IsValidRepo(ds.repo, f),
     repo |-> IF IsValidRepo(ds.repo, f) THEN ds.repo.disk[f].sub ELSE NoRepo]

NoMessage == RefSha(0)

\* revdiff.py:189-193
ImpossibleResult(ds, invalid) ==
    [path |-> ds.path, parentds |-> "", status |-> "impossible",
     message |-> invalid, state |-> "none", type |-> "none", sha |-> 0,
     prev |-> 0]

\* revdiff.py:198-205
OkResult(ds, f, props) ==
    [path |-> Join(ds.path, f), parentds |-> ds.path, status |-> "ok",
     message |-> NoMessage, state |-> props.state, type |-> props.type,
     sha |-> props.sha, prev |-> props.prev]

\* the results yielded so far, and whether the generator ended in an exception
NoResults == [raised |-> FALSE, results |-> <<>>]

Yield(out, res) == [out EXCEPT !.results = Append(@, res)]

Raise(out) == [out EXCEPT !.raised = TRUE]

\* NestedFrom that starts every nested diff before time
NestedFromSentinel(props) == PRE_INIT_COMMIT_SHA

\* revdiff.py:216-220: from before time or from the reported state
NestedFrom(props) ==
    IF props.state = "added" THEN PRE_INIT_COMMIT_SHA ELSE RefSha(props.prev)

\* revdiff.py:221-222: to the last recorded state, or the worktree
NestedTo(to, props) == IF to = None THEN None ELSE RefSha(props.sha)

RECURSIVE _diff_ds(_, _, _, _, _, _, _)
RECURSIVE DiffLoop(_, _, _, _, _, _, _, _)

\* DiffInto that hands its own recursion level to the nested diff
DiffIntoSameLevel(ds, f, props, to, recursion_level, paths, untracked, out) ==
    IF recursion_level = 0 \/ props.type # "dataset" THEN out
    ELSE IF props.state \in {"clean", "deleted"} THEN out
    ELSE IF props.state \in {"added", "modified"}
    THEN IF (props.state # "added" /\ props.prev = 0) \/ (to # None /\ props.sha = 0)
         THEN Raise(out)
         ELSE _diff_ds(Dataset(ds, f), NestedFrom(props), NestedTo(to, props),
                       recursion_level, paths, untracked, out)
    ELSE Raise(out)

\* revdiff.py:206-235: what follows the result of the path f
DiffInto(ds, f, props, to, recursion_level, paths, untracked, out) ==
    IF recursion_level = 0 \/ props.type # "dataset" THEN out
    ELSE IF props.state \in {"clean", "deleted"} THEN out
    ELSE IF props.state \in {"added", "modified"}
    THEN IF (props.state # "added" /\ props.prev = 0) \/ (to # None /\ props.sha = 0)
         THEN Raise(out)
         ELSE _diff_ds(Dataset(ds, f), NestedFrom(props), NestedTo(to, props),
                       recursion_level - 1, paths, untracked, out)
    ELSE Raise(out)

\* revdiff.py:196-235: the loop over the report, from the i-th path on
DiffLoop(ds, st, i, to, recursion_level, paths, untracked, out) ==
    IF i > Len(PathOrder) \/ out.raised THEN out
    ELSE IF ~st[PathOrder[i]].has
    THEN DiffLoop(ds, st, i + 1, to, recursion_level, paths, untracked, out)
    ELSE DiffLoop(ds, st, i + 1, to, recursion_level, paths, untracked,
                  DiffInto(ds, PathOrder[i], st[PathOrder[i]], to,
                           recursion_level, paths, untracked,
                           Yield(out, OkResult(ds, PathOrder[i], st[PathOrder[i]]))))

\* DiffFailed without the return after the result
DiffFailedNoReturn(ds, fr, to, got, out) ==
    IF got.invalid = fr \/ got.invalid = to
    THEN Raise(Yield(out, ImpossibleResult(ds, got.invalid)))
    ELSE Raise(out)

\* revdiff.py:184-194: a ValueError that does not name an endpoint is
\* swallowed and the loop then finds diff_state unbound
DiffFailed(ds, fr, to, got, out) ==
    IF got.invalid = fr \/ got.invalid = to
    THEN Yield(out, ImpossibleResult(ds, got.invalid))
    ELSE Raise(out)

\* revdiff.py:173-235; ds.repo.pathobj fails for a dataset without repository
_diff_ds(ds, fr, to, recursion_level, paths, untracked, out) ==
    IF ~ds.valid THEN Raise(out)
    ELSE IF diffstatus(ds.repo, fr, to, paths, untracked, "other").raised
    THEN DiffFailed(ds, fr, to,
                    diffstatus(ds.repo, fr, to, paths, untracked, "other"), out)
    ELSE DiffLoop(ds, diffstatus(ds.repo, fr, to, paths, untracked, "other").st,
                  1, to, recursion_level, paths, untracked, out)

\* revdiff.py:124-126
RecursionLevel(recursive, recursion_limit) ==
    IF recursion_limit.given /\ recursive THEN recursion_limit.n
    ELSE IF recursive THEN -1 ELSE 0

NoLimit == [given |-> FALSE, n |-> 0]

Limit(n) == [given |-> TRUE, n |-> n]

\* revdiff.py:131-136: every result names the dataset and the action
Annotate(out) ==
    [raised |-> out.raised,
     results |-> [i \in 1..Len(out.results) |->
                    out.results[i] @@ [refds |-> Root, action |-> "diff"]]]

\* RevDiff.__call__(fr, to, untracked, recursive, recursion_limit) on the dataset of
\* the repository r (revdiff.py:84-136)
rev_diff(r, fr, to, untracked, recursive, recursion_limit) ==
    Annotate(_diff_ds([path |-> Root, valid |-> TRUE, repo |-> r], fr, to,
                      RecursionLevel(recursive, recursion_limit), NoPaths,
                      untracked, NoResults))

\* ------------------------------------------------- diff: initial states
\* the largest recursion limit that a diff is given
MaxLimit == 1

\* the tree with the files "a" and "b" and the link "s" (0: not there), and
\* the link registry that goes with the link
DiffTree(a, b, s) ==
    [p \in Paths |->
        CASE p = "a" -> BlobEntry("file", a)
          [] p = "b" -> BlobEntry("file", b)
          [] p = "s" -> BlobEntry("dataset", s)
          [] p = GM -> BlobEntry("file", GmContent(IF s = 0 THEN {} ELSE {"s"}))
          [] OTHER -> NoEntry]

\* the worktree that a checkout of the tree leaves, with d at the link path
CheckedOut(tree, d) ==
    [p \in Paths |->
        IF p = "s" THEN d
        ELSE IF tree[p].type = "none" THEN Absent ELSE FileOn(tree[p].sha)]

\* the repository with this history, the commit h checked out (0: no commit
\* yet), and this index and worktree
HistRepo(hist, h, index, disk) ==
    [head |-> IF h = 0 THEN NoTree.tree ELSE hist[h],
     index |-> index,
     disk |-> disk,
     hexsha |-> h,
     msg |-> "init",
     hist |-> hist]

\* the histories of the nested repository: one commit with the file "a",
\* and a second one that changes "a", adds "b", or removes "a"
SubHists ==
    {<<DiffTree(1, 0, 0)>>}
    \cup {<<DiffTree(1, 0, 0), DiffTree(ab[1], ab[2], 0)>> :
            ab \in {<<1, 1>>, <<2, 0>>, <<2, 1>>, <<0, 1>>}}

\* the worktrees of a nested repository at the commit h: clean, "a" edited,
\* "a" gone, "b" not tracked
SubWorktrees(hist, h) ==
    {CheckedOut(hist[h], Absent)}
    \cup {[CheckedOut(hist[h], Absent) EXCEPT !["a"] = d] :
            d \in IF hist[h]["a"].type = "none" THEN {} ELSE {FileOn(3), Absent}}
    \cup {[CheckedOut(hist[h], Absent) EXCEPT !["b"] = d] :
            d \in IF hist[h]["b"].type = "none" THEN {FileOn(1)} ELSE {}}

SubRepos ==
    UNION {UNION {{HistRepo(hist, h, hist[h], disk) :
                        disk \in SubWorktrees(hist, h)} :
                    h \in 1..Len(hist)} :
            hist \in SubHists}

\* a nested repository whose second commit records a subdataset of its own,
\* a repository with one commit and a clean worktree
DeepRepo ==
    HistRepo(<<DiffTree(1, 0, 0), DiffTree(1, 0, 1)>>, 2, DiffTree(1, 0, 1),
             CheckedOut(DiffTree(1, 0, 1),
                        RepoOn(HistRepo(<<DiffTree(1, 0, 0)>>, 1,
                                        DiffTree(1, 0, 0),
                                        CheckedOut(DiffTree(1, 0, 0), Absent)))))

\* what the link path holds: a nested repository, or the empty mount point
\* of a subdataset that is not installed
Mounts == {RepoOn(sub) : sub \in SubRepos \cup {DeepRepo}} \cup {EmptyDir}

\* the dataset with two commits: the first records the link at s1, the
\* second at s2 and changes the file "a"; the index records the link at si
LinkedRepo(s1, s2, si, d) ==
    HistRepo(<<DiffTree(1, 0, s1), DiffTree(2, 0, s2)>>, 2,
             DiffTree(2, 0, si),
             CheckedOut(DiffTree(2, 0, si), d))

\* a dataset without any commit, with one untracked file
FreshRepo == HistRepo(<<>>, 0, NoTree.tree, CheckedOut(DiffTree(1, 0, 0), Absent))

DiffRepos ==
    {LinkedRepo(s1, s2, s2, d) : s1 \in 0..1, s2 \in 1..2, d \in Mounts}
    \cup {LinkedRepo(1, 1, 2, d) : d \in Mounts}
    \cup {LinkedRepo(s1, 0, 0, Absent) : s1 \in 0..1}
    \cup {FreshRepo}

\* ------------------------------------------------------ diff: operations
NoDiffOp ==
    [op |-> "none", fr |-> None, to |-> None, untracked |-> "",
     recursive |-> FALSE, recursion_limit |-> NoLimit, raised |-> FALSE,
     results |-> <<>>]

DiffInit ==
    /\ repo \in DiffRepos
    /\ last = NoDiffOp
    /\ nops = 0

DiffRecord(fr, to, untracked, recursive, recursion_limit, out) ==
    [op |-> "diff", fr |-> fr, to |-> to, untracked |-> untracked,
     recursive |-> recursive, recursion_limit |-> recursion_limit,
     raised |-> out.raised, results |-> out.results]

FromRefs == {RefName("HEAD"), RefName("HEAD~1"), RefName("WTF"), PRE_INIT_COMMIT_SHA}

ToRefs == {None, RefName("HEAD"), RefName("MIKE")}

Recursions ==
    {<<FALSE, NoLimit>>, <<TRUE, NoLimit>>}
    \cup {<<TRUE, Limit(n)>> : n \in 0..MaxLimit}

\* ds.rev_diff(fr, to, untracked, recursive, recursion_limit): a query, the
\* repository stays as it is, so that a second diff has nothing new to show
\* and a behaviour makes one
DiffOp(fr, to, untracked, rec) ==
    /\ last = NoDiffOp
    /\ last' = DiffRecord(fr, to, untracked, rec[1], rec[2],
                          rev_diff(repo, fr, to, untracked, rec[1], rec[2]))
    /\ nops' = nops + 1
    /\ UNCHANGED repo

DiffNext ==
    \E fr \in FromRefs, to \in ToRefs, untracked \in {"normal", "all"},
       rec \in Recursions :
        DiffOp(fr, to, untracked, rec)

DiffSpec == DiffInit /\ [][DiffNext]_vars

\* ============================================================ annex content
\* A repository with an annex: a file is absent, untracked, kept in git, or
\* annexed under a key; an annexed file is committed (inhead) or only staged,
\* and its content object lies in the object store under the mixed layout,
\* the lower layout, both, or not at all.

AnnexPaths == {"f", "g"}

AnnexOrder == <<"f", "g">>

\* the situations of one file (tests/utils.py: untracked, added, clean,
\* ingit_clean, dropped_clean)
AnnexFileStates ==
    {[kind |-> "absent", inhead |-> FALSE, loc |-> "none"],
     [kind |-> "untracked", inhead |-> FALSE, loc |-> "none"],
     [kind |-> "ingit", inhead |-> TRUE, loc |-> "none"]}
    \cup {[kind |-> "annexed", inhead |-> h, loc |-> l] :
            h \in BOOLEAN, l \in {"none", "mixed", "lower", "both"}}

\* the key of the annexed file p
KeyOf(p) == IF p = "f" THEN "K1" ELSE "K2"

\* a record of the content info: type, the annex properties key and the two
\* hash directories (dirs), has_content (avail: "", "true", "false") and
\* objloc
NoAnnexRec ==
    [has |-> FALSE, type |-> "", key |-> "", dirs |-> FALSE, avail |-> "",
     objloc |-> <<>>]

NoAnnexInfo == [p \in AnnexPaths |-> NoAnnexRec]

\* GitRepo.get_content_info(paths, ref) as far as the annex report uses it
\* (annexrepo.py:114-115): a record with a type for each path of the
\* worktree, or of the commit
GitInfo(r, paths, ref) ==
    [p \in AnnexPaths |->
        IF /\ paths.set = {} \/ p \in paths.set
           /\ IF ref THEN r[p].inhead ELSE r[p].kind # "absent"
        THEN [NoAnnexRec EXCEPT !.has = TRUE,
                                !.type = IF r[p].kind = "annexed"
                                         THEN "symlink" ELSE "file"]
        ELSE NoAnnexRec]

\* the files `git annex findref ref`, `git annex find paths` and
\* `git annex find --include *` report (annexrepo.py:118-125): the first two
\* list the annexed files whose content is present, the last one all of them
AnnexFound(r, paths, ref) ==
    {p \in AnnexPaths :
        /\ r[p].kind = "annexed"
        /\ IF ref THEN r[p].inhead /\ r[p].loc # "none"
           ELSE paths.set = {} \/ (p \in paths.set /\ r[p].loc # "none")}

\* annexrepo.py:33-62
_mark_content_availability(r, info) ==
    [p \in AnnexPaths |->
        IF ~info[p].has \/ info[p].key = "" \/ info[p].avail # "" THEN info[p]
        ELSE IF r[p].loc \in {"mixed", "both"}
        THEN [info[p] EXCEPT !.dirs = FALSE, !.avail = "true",
                             !.objloc = <<"mixed", info[p].key>>]
        ELSE IF r[p].loc = "lower"
        THEN [info[p] EXCEPT !.dirs = FALSE, !.avail = "true",
                             !.objloc = <<"lower", info[p].key>>]
        ELSE [info[p] EXCEPT !.avail = "false"]]

\* annexrepo.py:125-134: the loop over the records of the annex command, from
\* the i-th path on
RECURSIVE AnnexLoop(_, _, _, _, _)
AnnexLoop(r, info, found, i, eval_availability) ==
    IF i > Len(AnnexOrder) THEN info
    ELSE IF AnnexOrder[i] \notin found
    THEN AnnexLoop(r, info, found, i + 1, eval_availability)
    ELSE AnnexLoop(r,
            IF eval_availability
            THEN _mark_content_availability(r,
                    [info EXCEPT ![AnnexOrder[i]].has = TRUE,
                                 ![AnnexOrder[i]].key = KeyOf(AnnexOrder[i]),
                                 ![AnnexOrder[i]].dirs = TRUE])
            ELSE [info EXCEPT ![AnnexOrder[i]].has = TRUE,
                              ![AnnexOrder[i]].key = KeyOf(AnnexOrder[i]),
                              ![AnnexOrder[i]].dirs = TRUE],
            found, i + 1, eval_availability)

\* annexrepo.py:64-135; the init argument is None, 'git', or a map of the
\* caller: [kind |-> "none" | "git" | "seed", info |-> the map]
get_content_annexinfo(r, paths, init, ref, eval_availability) ==
    AnnexLoop(r,
              IF init.kind = "git" THEN GitInfo(r, paths, ref) ELSE init.info,
              AnnexFound(r, paths, ref), 1, eval_availability)

\* ------------------------------------------------------- annex: operations
NoAnnexOp ==
    [op |-> "none", paths |-> NoPaths,
     init |-> [kind |-> "none", info |-> NoAnnexInfo], ref |-> FALSE,
     eval_availability |-> FALSE,
     pre |-> [p \in AnnexPaths |->
                [kind |-> "absent", inhead |-> FALSE, loc |-> "none"]],
     info |-> NoAnnexInfo]

AnnexInit ==
    /\ repo \in [AnnexPaths -> AnnexFileStates]
    /\ last = NoAnnexOp
    /\ nops = 0

AnnexInfoCall(paths, init, ref, eval_availability) ==
    /\ last' = [op |-> IF init.kind = "seed" /\ last.op # "none"
                       THEN "seeded" ELSE "annexinfo",
                paths |-> paths, init |-> init, ref |-> ref,
                eval_availability |-> eval_availability, pre |-> repo,
                info |-> get_content_annexinfo(repo, paths, init, ref,
                                               eval_availability)]
    /\ nops' = nops + 1
    /\ UNCHANGED repo

\* repo.get_content_annexinfo(paths, init, ref, eval_availability) with init
\* None, 'git' or an empty map
AnnexInfoOp(paths, init, ref, eval_availability) ==
    /\ last.op = "none"
    /\ AnnexInfoCall(paths, init, ref, eval_availability)

\* the report of one call handed to the next as its init, as annexstatus
\* does (annexrepo.py:137-144)
SeededInfoOp(paths, ref, eval_availability) ==
    /\ last.op = "annexinfo"
    /\ AnnexInfoCall(paths, [kind |-> "seed", info |-> last.info], ref,
                     eval_availability)

\* the content of the annexed file p is dropped between two calls
DropOp(p) ==
    /\ last.op = "annexinfo"
    /\ repo[p].kind = "annexed" /\ repo[p].loc # "none"
    /\ repo' = [repo EXCEPT ![p].loc = "none"]
    /\ UNCHANGED <<last, nops>>

AnnexNext ==
    \/ \E paths \in {NoPaths, PathList({"f"})},
          kind \in {"none", "git", "seed"},
          ref \in BOOLEAN, eval_availability \in BOOLEAN :
            AnnexInfoOp(paths, [kind |-> kind, info |-> NoAnnexInfo], ref,
                        eval_availability)
    \/ \E paths \in {NoPaths, PathList({"f"})},
          ref \in BOOLEAN, eval_availability \in BOOLEAN :
            SeededInfoOp(paths, ref, eval_availability)
    \/ \E p \in AnnexPaths : DropOp(p)

AnnexSpec == AnnexInit /\ [][AnnexNext]_vars

\* =========================================================== status command
\* rev_status reports on a hierarchy of datasets. The hierarchy here is the
\* reference dataset at Root with the file "a" (when a is set) and the link
\* "dir/s"; the subdataset at the link is installed or not and holds the
\* files of sub. Paths are written relative to Root.

\* the most path arguments one call is given
MaxArgs == 2

\* the path arguments in the order sorted() gives their spellings
\* (revstatus.py:184): absolute ones, then relative ones; an argument lies in
\* the hierarchy, in another dataset ("other"), or in no dataset ("none")
ArgOrder ==
    <<[form |-> "abs", where |-> "in", at |-> ""],
      [form |-> "abs", where |-> "in", at |-> "a"],
      [form |-> "abs", where |-> "in", at |-> "dir"],
      [form |-> "abs", where |-> "in", at |-> "dir/s"],
      [form |-> "abs", where |-> "in", at |-> "dir/s/a"],
      [form |-> "abs", where |-> "other", at |-> "/other/x"],
      [form |-> "abs", where |-> "none", at |-> "/out"],
      [form |-> "rel", where |-> "in", at |-> "a"],
      [form |-> "rel", where |-> "in", at |-> "dir"],
      [form |-> "rel", where |-> "in", at |-> "dir/s"],
      [form |-> "rel", where |-> "in", at |-> "dir/s/a"]>>

\* revstatus.py:181-203: the arguments sorted into the datasets that hold
\* them, from the i-th argument of the order on; acc = [order, ps, results,
\* queried, queries], order the datasets in the order of their first
\* argument, ps the paths of each. resolve_path makes a relative argument
\* a path under Root; get_dataset_root is the subdataset for a path at or
\* under an installed subdataset, Root for any other path of the hierarchy.
RECURSIVE paths_by_ds(_, _, _, _)
paths_by_ds(h, args, i, acc) ==
    IF i > Len(ArgOrder) THEN acc
    ELSE IF ArgOrder[i] \notin args THEN paths_by_ds(h, args, i + 1, acc)
    ELSE IF ArgOrder[i].where = "none"
    THEN paths_by_ds(h, args, i + 1,
            [acc EXCEPT !.results = Append(@,
                [path |-> ArgOrder[i].at, parentds |-> "", status |-> "error"])])
    ELSE LET p == ArgOrder[i].at
             root == CASE ArgOrder[i].where = "other" -> "/other"
                       [] h.installed /\ p \in {"dir/s", "dir/s/a"} -> "dir/s"
                       [] OTHER -> ""
         IN  paths_by_ds(h, args, i + 1,
                [acc EXCEPT
                    !.order = IF \E k \in 1..Len(@) : @[k] = root
                              THEN @ ELSE Append(@, root),
                    !.ps = [@ EXCEPT ![root] =
                                IF p # root THEN Append(@, p) ELSE @]])

\* repo.diffstatus(fr='HEAD', to=None, paths) of the dataset ds, as far as
\* the status command uses it: the records of its content at or under one of
\* the paths, all of them without paths
content_records(h, ds, paths) ==
    SelectSeq(IF ds = ""
              THEN (IF h.a THEN <<[at |-> "a", type |-> "file"]>> ELSE <<>>)
                   \o <<[at |-> "dir/s", type |-> "dataset"]>>
              ELSE (IF "dir/s/a" \in h.sub
                    THEN <<[at |-> "dir/s/a", type |-> "file"]>> ELSE <<>>)
                   \o (IF "dir/s/b" \in h.sub
                       THEN <<[at |-> "dir/s/b", type |-> "file"]>> ELSE <<>>),
              LAMBDA rec :
                \/ paths = <<>>
                \/ \E k \in 1..Len(paths) :
                        \/ paths[k] = rec.at
                        \/ paths[k] = "dir" /\ ds = "")

RECURSIVE _yield_status(_, _, _, _, _)
RECURSIVE YieldFrom(_, _, _, _, _, _)

\* revstatus.py:76-95: the loop over the records of one dataset, from the
\* i-th record on
YieldFrom(h, ds, recs, i, recursion_limit, acc) ==
    IF i > Len(recs) THEN acc
    ELSE YieldFrom(h, ds, recs, i + 1, recursion_limit,
            IF recursion_limit # 0 /\ recs[i].type = "dataset" /\ h.installed
            THEN _yield_status(h, recs[i].at, <<>>, recursion_limit - 1,
                    [acc EXCEPT !.results = Append(@,
                                    [path |-> Join(Root, recs[i].at),
                                     parentds |-> IF ds = "" THEN Root
                                                  ELSE Join(Root, ds),
                                     status |-> "ok"]),
                                !.queried = @ \cup {ds}])
            ELSE [acc EXCEPT !.results = Append(@,
                                    [path |-> Join(Root, recs[i].at),
                                     parentds |-> IF ds = "" THEN Root
                                                  ELSE Join(Root, ds),
                                     status |-> "ok"]),
                             !.queried = @ \cup {ds}])

\* _yield_status (revstatus.py:62-95); queries logs the datasets whose
\* status is queried
_yield_status(h, ds, paths, recursion_limit, acc) ==
    YieldFrom(h, ds, content_records(h, ds, paths), 1, recursion_limit,
              [acc EXCEPT !.queries = Append(@, ds)])

\* revstatus.py:205-252: the loop over the datasets that hold arguments, from
\* the i-th one on; a dataset outside the reference dataset gets an error
\* result (path_under_dataset is None), a dataset that was queried is left
\* out
RECURSIVE StatusLoop(_, _, _, _)
StatusLoop(h, i, recursion_limit, acc) ==
    IF i > Len(acc.order) THEN acc
    ELSE IF acc.order[i] = "/other"
    THEN StatusLoop(h, i + 1, recursion_limit,
            [acc EXCEPT !.results = Append(@,
                [path |-> "/other", parentds |-> "", status |-> "error"])])
    ELSE IF acc.order[i] \in acc.queried
    THEN StatusLoop(h, i + 1, recursion_limit, acc)
    ELSE StatusLoop(h, i + 1, recursion_limit,
            _yield_status(h, acc.order[i], acc.ps[acc.order[i]],
                          recursion_limit, acc))

\* RevStatus.__call__(path, dataset, recursive, recursion_limit)
\* (revstatus.py:172-252) on the hierarchy h
rev_status(h, args, recursive, recursion_limit) ==
    StatusLoop(h, 1,
               IF recursion_limit.given THEN recursion_limit.n
               ELSE IF recursive THEN -1 ELSE 0,
               IF args = {}
               THEN [order |-> <<"">>,
                     ps |-> [d \in {"", "dir/s", "/other"} |-> <<>>],
                     results |-> <<>>, queried |-> {}, queries |-> <<>>]
               ELSE paths_by_ds(h, args, 1,
                        [order |-> <<>>,
                         ps |-> [d \in {"", "dir/s", "/other"} |-> <<>>],
                         results |-> <<>>, queried |-> {}, queries |-> <<>>]))

\* ------------------------------------------------------ status: operations
RevStatusInit ==
    /\ repo \in {[installed |-> i, a |-> a, sub |-> s] :
                    i \in BOOLEAN, a \in BOOLEAN,
                    s \in SUBSET {"dir/s/a", "dir/s/b"}}
    /\ ~repo.installed => repo.sub = {}
    /\ last = [op |-> "none", args |-> {}, recursive |-> FALSE,
               recursion_limit |-> NoLimit, results |-> <<>>, queries |-> <<>>]
    /\ nops = 0

\* ds.rev_status(path=args, recursive, recursion_limit): a query, the
\* hierarchy stays as it is
RevStatusOp(args, recursive, recursion_limit) ==
    /\ last.op = "none"
    /\ last' = [op |-> "rev_status", args |-> args, recursive |-> recursive,
                recursion_limit |-> recursion_limit,
                results |-> rev_status(repo, args, recursive,
                                       recursion_limit).results,
                queries |-> rev_status(repo, args, recursive,
                                       recursion_limit).queries]
    /\ nops' = nops + 1
    /\ UNCHANGED repo

RevStatusNext ==
    \E args \in SUBSET {ArgOrder[k] : k \in 1..Len(ArgOrder)},
       recursive \in BOOLEAN,
       recursion_limit \in {NoLimit} \cup {Limit(n) : n \in 0..MaxLimit} :
        /\ Cardinality(args) <= MaxArgs
        /\ RevStatusOp(args, recursive, recursion_limit)

RevStatusSpec == RevStatusInit /\ [][RevStatusNext]_vars

\* ================================================================== claims
\* the three enumerations status() made in the last operation
LastWt == get_content_info(last.pre, last.paths, "", last.kw.untracked)

LastHead == get_content_info(last.pre, last.paths, "HEAD", last.kw.untracked)

LastModified == ModifiedSet(last.pre, last.paths)

OnDisk(f) == PathExists(last.pre, f) \/ IsSymlink(last.pre, f)

StatusDone == last.op = "status" /\ ~last.raised

\* present in both enumerations with the same identity, not in the modified set
Unchanged(f) ==
    /\ LastWt[f].has /\ LastHead[f].has
    /\ LastWt[f].sha = LastHead[f].sha
    /\ f \notin LastModified

\* the state the classification rules give a path of the worktree enumeration
RuleState(f) ==
    IF ~LastHead[f].has
    THEN IF LastWt[f].sha # 0 THEN "added" ELSE "untracked"
    ELSE IF Unchanged(f)
    THEN IF OnDisk(f) THEN "clean" ELSE "deleted"
    ELSE IF OnDisk(f) THEN "modified" ELSE "deleted"

\* a link that the rules call clean and that holds a nested repository
CleanLink(f) ==
    /\ LastWt[f].has
    /\ LastWt[f].type = "dataset"
    /\ RuleState(f) = "clean"
    /\ IsValidRepo(last.pre, f)

C2_DeletionIdentity ==
    StatusDone =>
        /\ \A f \in Keys :
            LastHead[f].has /\ ~LastWt[f].has =>
                last.st[f] = Rec("deleted", LastHead[f].type, LastHead[f].sha)
                /\ last.st[f].sha # 0
        /\ \A f \in Keys :
            LastWt[f].has /\ last.st[f].state = "deleted" => last.st[f].sha = 0

\* one report with a staged deletion and a plain removal
C2_Witness ==
    /\ StatusDone
    /\ last.st["a"].has /\ last.st["a"].state = "deleted" /\ last.st["a"].sha # 0
    /\ last.st["b"].has /\ last.st["b"].state = "deleted" /\ last.st["b"].sha = 0

\* C3: with ignore_submodules='all' status() returns; it has no record for a
\* link with unchanged identity outside the modified set, and for every other
\* path the record it has without the option.
C3_IgnoreAll ==
    last.op = "status" /\ last.kw.ignore = "all" =>
        /\ ~last.raised
        /\ \A f \in Keys :
            IF Unchanged(f) /\ LastWt[f].type = "dataset"
            THEN ~last.st[f].has
            ELSE last.st[f] = status(last.pre, last.paths,
                                     last.kw.untracked, "no").st[f]

\* is link g listed before link f
Before(g, f) ==
    \E i, j \in 1..Len(PathOrder) : i < j /\ PathOrder[i] = g /\ PathOrder[j] = f

\* the nested repository of f has another commit checked out than recorded
Differs(f) == LastWt[f].sha # last.pre.disk[f].sub.hexsha

\* the own status of the nested repository of f has a record that is not clean
NestedDirty(f) ==
    \E k \in Keys :
        LET n == status(last.pre.disk[f].sub, NoPaths, last.kw.untracked, "other").st[k]
        IN  n.has /\ n.state # "clean"

\* the descent rule for the link f
DescentRule(f) ==
    IF Differs(f)
    THEN last.st[f].state = "modified" /\ f \notin last.queried
    ELSE /\ f \in last.queried
         /\ last.st[f].state = (IF NestedDirty(f) THEN "modified" ELSE "clean")

C5_RecordsOfEnumeratedPaths ==
    StatusDone =>
        \A k \in Keys :
            last.st[k].has =>
                /\ last.st[k].state \in States
                /\ LastWt[k].has \/ LastHead[k].has

\* one report with a record from the worktree enumeration alone, one from the
\* HEAD enumeration alone, and a path of neither
C5_Witness ==
    /\ StatusDone
    /\ \E k \in Keys : last.st[k].has /\ ~LastHead[k].has
    /\ \E k \in Keys : last.st[k].has /\ ~LastWt[k].has
    /\ \E k \in Keys : ~last.st[k].has

SaveDone == last.op \in {"save", "rev_save"} /\ ~last.raised

\* the report the last save worked from, before the clean records are dropped
SaveReport ==
    IF last.given = "none"
    THEN status(last.pre, last.paths,
                IF last.kw.untracked = "" THEN "normal" ELSE last.kw.untracked,
                IF last.kw.ignore = "" THEN "no" ELSE last.kw.ignore)
    ELSE [raised |-> FALSE, st |-> StatusArg(last.pre, last.given).st]

NothingToSave ==
    /\ ~SaveReport.raised
    /\ \A k \in Keys : SaveReport.st[k].has => SaveReport.st[k].state = "clean"

\* C6: a save whose report, supplied or computed, has no record that is not
\* clean changes nothing in the repository, issues no command to the store
\* and yields no result.
C6_NothingToSave ==
    last.op \in {"save", "rev_save"} /\ NothingToSave =>
        /\ ~last.raised
        /\ repo = last.pre
        /\ last.log = <<>>
        /\ last.results = <<>>

\* a save that was handed a report with clean records only
C6_Witness ==
    /\ SaveDone /\ last.given = "full" /\ NothingToSave
    /\ \E k \in Keys : SaveReport.st[k].has
    /\ repo = last.pre

\* C7: the same save() once more, nothing having changed in between, makes
\* no commit and yields no result.
C7_Idempotent ==
    SaveDone /\ last.again =>
        /\ repo.hexsha = last.pre.hexsha
        /\ last.results = <<>>

\* the states of the records of status(untracked='all') after the operation
PostStatus == status(repo, NoPaths, "all", "no")

PreStatus == status(last.pre, NoPaths, "all", "no")

DefaultSave ==
    /\ last.op = "save" /\ ~last.again
    /\ last.paths = NoPaths /\ last.given = "none" /\ last.kw = NoKw

\* the own status of the nested repository at f has a record that is not clean
StillDirty(f) ==
    /\ repo.disk[f].kind = "repo"
    /\ \E k \in Keys :
        LET n == status(repo.disk[f].sub, NoPaths, "all", "other").st[k]
        IN  n.has /\ n.state # "clean"

\* C8: after save() with default arguments status(untracked='all') reports
\* every path clean, but for the links whose nested repository is still
\* dirty, which are modified; nothing inside a nested repository has changed.
C8_SaveAll ==
    DefaultSave /\ ~last.raised =>
        /\ ~PostStatus.raised
        /\ \A k \in Keys :
            PostStatus.st[k].has =>
                \/ PostStatus.st[k].state = "clean"
                \/ /\ PostStatus.st[k].type = "dataset"
                   /\ PostStatus.st[k].state = "modified"
                   /\ StillDirty(k)
        /\ \A p \in Paths :
            last.pre.disk[p].kind = "repo" => repo.disk[p] = last.pre.disk[p]

\* staged for removal and gone from disk
StagedRemoval(r, p) ==
    /\ r.head[p].type # "none"
    /\ r.index[p].type = "none"
    /\ r.disk[p].kind = "absent"

\* C9 as stated: a path staged for removal and gone from disk is reported
\* deleted before a save and after it, and neither added nor untracked after.
C9_AsStated ==
    SaveDone =>
        \A p \in Paths :
            StagedRemoval(last.pre, p) =>
                /\ PreStatus.st[p].has /\ PreStatus.st[p].state = "deleted"
                /\ PostStatus.st[p].has /\ PostStatus.st[p].state = "deleted"

\* C9 amended: a path staged for removal and gone from disk is reported
\* deleted, with the identity it has in HEAD, before a save. A save that has
\* the path in its report commits the removal and status has no record of the
\* path after; a save that does not leaves the record as it was. The path is
\* neither added nor untracked after.
C9_StagedRemoval ==
    SaveDone =>
        \A p \in Paths :
            StagedRemoval(last.pre, p) =>
                /\ PreStatus.st[p] =
                        Rec("deleted", last.pre.head[p].type, last.pre.head[p].sha)
                /\ IF last.st[p].has
                   THEN ~PostStatus.st[p].has /\ repo.head[p].type = "none"
                   ELSE PostStatus.st[p] = PreStatus.st[p]

\* a save that committed the removal of such a path
C9_Witness ==
    /\ SaveDone /\ DefaultSave
    /\ StagedRemoval(last.pre, "a")
    /\ repo.head["a"].type = "none"
    /\ ~PostStatus.st["a"].has

\* C10: rev_save(updated=True) leaves every path that was untracked before
\* out of the index and out of HEAD, and status reports it untracked after.
C10_UpdatedOnly ==
    last.op = "rev_save" /\ last.updated /\ ~last.raised =>
        \A p \in Paths :
            PreStatus.st[p].has /\ PreStatus.st[p].state = "untracked" =>
                /\ repo.index[p].type = "none"
                /\ repo.head[p].type = "none"
                /\ PostStatus.st[p].has /\ PostStatus.st[p].state = "untracked"

\* a save that was given paths
PathSave == SaveDone /\ last.paths.given /\ last.paths.set # {}

\* C11: a save that is given paths and a report stages and commits only the
\* records of the report that match one of the paths; what the repository
\* holds at the other paths stays as it was.
C11_PathsWithStatus ==
    PathSave /\ last.given = "full" =>
        \A p \in Paths :
            ~Selected(p, last.paths) =>
                /\ repo.head[p] = last.pre.head[p]
                /\ repo.index[p] = last.pre.index[p]

\* the paths of the results of the last save with the given outcome
ResultPaths(outcome) ==
    {last.results[i].path : i \in {j \in 1..Len(last.results) :
                                        last.results[j].status = outcome}}

\* the records of the report of the last save that are not clean
InputPaths == {k \in Keys : SaveReport.st[k].has /\ SaveReport.st[k].state # "clean"}

\* C12 as stated: the paths with an `ok` result are the paths of the report
\* that are not clean, less those with an `error` result.
C12_AsStated ==
    SaveDone => ResultPaths("ok") = InputPaths \ ResultPaths("error")

\* C12 amended: every `ok` result is for a path at or under a record that
\* save passed to add (modified or untracked), and every untracked file or
\* symbolic link of the report has an `ok` result. A record that is added or
\* deleted has an `ok` result only when it lies under such a record; an
\* untracked directory has its results under the paths of its files.
C12_ResultStream ==
    SaveDone =>
        /\ \A p \in ResultPaths("ok") :
            \E k \in Keys : /\ last.st[k].has
                            /\ last.st[k].state \in {"modified", "untracked"}
                            /\ Matches(p, k)
        /\ \A k \in Keys :
            /\ last.st[k].has
            /\ last.st[k].state = "untracked"
            /\ last.st[k].type # "directory"
            => k \in ResultPaths("ok")

\* a save of a staged file, whose content changed since, and of an untracked
\* directory: the one `ok` result is for the file in the directory
C12_Witness ==
    /\ SaveDone
    /\ last.st["a"].has /\ last.st["a"].state = "added"
    /\ last.pre.disk["a"].kind = "file"
    /\ last.pre.disk["a"].c # last.pre.index["a"].sha
    /\ last.st["d"].has /\ last.st["d"].state = "untracked"
    /\ ResultPaths("ok") = {"d/x"}

\* the last save made a commit
Committed == repo.hexsha # last.pre.hexsha

Unrestricted == status(last.pre, NoPaths, last.kw.untracked, last.kw.ignore)

\* C14: a status query on the paths P has, for every path it reports, the
\* state and the type that the query without paths has for it, and no record
\* for a path that is neither one of P nor underneath one.
C14_PathsRestrict ==
    StatusDone /\ last.paths.given /\ ~Unrestricted.raised =>
        \A k \in Keys :
            IF last.st[k].has
            THEN /\ Selected(k, last.paths)
                 /\ Unrestricted.st[k].has
                 /\ Unrestricted.st[k].state = last.st[k].state
                 /\ Unrestricted.st[k].type = last.st[k].type
            ELSE TRUE

\* the tracked, clean file "a" and the untracked file "b", nothing else
OneTrackedOneUntracked(r) ==
    /\ r.head["a"].type = "file" /\ r.index["a"] = r.head["a"]
    /\ r.disk["a"] = FileOn(r.head["a"].sha)
    /\ r.head["b"].type = "none" /\ r.index["b"].type = "none"
    /\ r.disk["b"].kind = "file"
    /\ \A p \in Paths \ {"a", "b"} :
        /\ r.head[p].type = "none" /\ r.index[p].type = "none"
        /\ r.disk[p].kind = "absent"

WholeStatus == StatusDone /\ ~last.paths.given

\* C15 as stated: in a repository with the tracked clean file a and the
\* untracked file b, status(untracked='normal') has the one record
\* {b, file, untracked} and status(untracked='no') has no record.
C15_AsStated ==
    WholeStatus /\ OneTrackedOneUntracked(last.pre) =>
        /\ last.kw.untracked = "normal" =>
                /\ KeysOf(last.st) = {"b"}
                /\ last.st["b"] = Rec("untracked", "file", 0)
        /\ last.kw.untracked = "no" => KeysOf(last.st) = {}

\* C15 amended: in that repository status(untracked='normal') has two
\* records, {a, file, clean} and {b, file, untracked}, and
\* status(untracked='no') has the one record {a, file, clean}.
C15_Scenario ==
    WholeStatus /\ OneTrackedOneUntracked(last.pre) =>
        /\ last.st["a"] = Rec("clean", "file", last.pre.head["a"].sha)
        /\ last.kw.untracked = "normal" =>
                /\ KeysOf(last.st) = {"a", "b"}
                /\ last.st["b"] = Rec("untracked", "file", 0)
        /\ last.kw.untracked = "no" => KeysOf(last.st) = {"a"}

\* the query of that repository without untracked content
C15_Witness ==
    /\ WholeStatus /\ OneTrackedOneUntracked(last.pre)
    /\ last.kw.untracked = "no"
    /\ KeysOf(last.st) = {"a"}

\* nothing staged, nothing changed or missing on disk, nothing untracked, and
\* every link with its nested repository at the recorded commit and in such
\* a state itself
RECURSIVE FullyClean(_)
FullyClean(r) ==
    \A p \in Paths :
        /\ r.index[p] = r.head[p]
        /\ CASE r.index[p].type = "none" -> r.disk[p].kind = "absent"
             [] r.index[p].type = "dataset" ->
                    /\ r.disk[p].kind = "repo"
                    /\ r.disk[p].sub.hexsha = r.index[p].sha
                    /\ FullyClean(r.disk[p].sub)
             [] OTHER -> WtEntry(r.disk[p]) = r.index[p]

\* C16: in a repository where the worktree enumeration equals the HEAD
\* enumeration, the modified set is empty, every path is on disk and every
\* nested repository is clean and at its recorded commit, every record of
\* status() is clean.
C16_CleanRepository ==
    /\ StatusDone
    /\ LastWt = LastHead
    /\ LastModified = {}
    /\ \A k \in Keys : LastWt[k].has => OnDisk(k)
    /\ \A f \in LinkPaths :
        IsValidRepo(last.pre, f) =>
            /\ last.pre.disk[f].sub.hexsha = last.pre.index[f].sha
            /\ FullyClean(last.pre.disk[f].sub)
    => \A k \in Keys : last.st[k].has => last.st[k].state = "clean"

\* the query of a clean repository with a file and a link whose nested
\* repository was examined
C16_Witness ==
    /\ WholeStatus /\ FullyClean(last.pre)
    /\ last.st["a"].has /\ last.st["a"].state = "clean"
    /\ last.st["s"].has /\ last.st["s"].state = "clean"
    /\ "s" \in last.queried

\* the directories the last save registered as links
Registered ==
    UNION {last.log[i].files : i \in {j \in 1..Len(last.log) :
                                        last.log[j].op = "add_submodule"}}

\* C19: save registers as a link only a directory at or under a record of
\* its report that is untracked and a directory; without such a record it
\* registers none.
C19_PromotionScope ==
    SaveDone =>
        \A p \in Registered :
            \E k \in Keys : /\ SaveReport.st[k].has
                            /\ SaveReport.st[k].state = "untracked"
                            /\ SaveReport.st[k].type = "directory"
                            /\ Matches(p, k)

\* the paths the last save passed to the store's command cmd
PassedTo(cmd) ==
    UNION {last.log[i].files : i \in {j \in 1..Len(last.log) :
                                        last.log[j].op = cmd}}

\* C20: save passes to add the records of its report that are modified or
\* untracked and no others, and to remove the records that are deleted
\* without an identity and no others; a record that is added, or deleted with
\* an identity, is passed to neither.
C20_StagingByState ==
    SaveDone =>
        /\ PassedTo("add") =
            {k \in Keys : /\ last.st[k].has
                          /\ last.st[k].state \in {"modified", "untracked"}}
        /\ PassedTo("remove") =
            {k \in Keys : /\ last.st[k].has
                          /\ last.st[k].state = "deleted"
                          /\ last.st[k].sha = 0}
        /\ \A k \in Keys :
            /\ last.st[k].has
            /\ \/ last.st[k].state = "added"
               \/ last.st[k].state = "deleted" /\ last.st[k].sha # 0
            => k \notin PassedTo("add") \cup PassedTo("remove")

\* a save of a staged removal, of a file removed from disk and of an
\* untracked directory
C20_Witness ==
    /\ SaveDone
    /\ last.st["a"].has /\ last.st["a"].state = "deleted" /\ last.st["a"].sha # 0
    /\ last.st["b"].has /\ last.st["b"].state = "deleted" /\ last.st["b"].sha = 0
    /\ last.st["d"].has /\ last.st["d"].state = "untracked"
    /\ PassedTo("add") = {"d"}
    /\ PassedTo("remove") = {"b"}

\* ---- C17, C18: the diff command (checked under DiffSpec)
DiffDone == last.op = "diff"

\* the reference is an endpoint of the last diff that the store cannot resolve
InvalidEndpoint(ref) ==
    /\ ~Resolve(repo, ref).ok
    /\ ref = last.fr \/ (last.to # None /\ ref = last.to)

\* C17: when the `from` or the `to` endpoint of a diff is not resolvable by
\* the store, the call yields exactly one result, which has the status
\* `impossible`, is a result of the dataset as a whole and names the invalid
\* reference in its message; the call yields no result of any path.
C17_InvalidEndpoint ==
    (DiffDone /\ (InvalidEndpoint(last.fr) \/ InvalidEndpoint(last.to))) =>
        /\ ~last.raised
        /\ Len(last.results) = 1
        /\ last.results[1].status = "impossible"
        /\ last.results[1].path = Root
        /\ InvalidEndpoint(last.results[1].message)

\* a recursive diff from a valid reference to an invalid one, in a dataset
\* that has a subdataset, ends with the one result
C17_Witness ==
    /\ DiffDone /\ last.recursive
    /\ Resolve(repo, last.fr).ok
    /\ Resolve(repo, last.fr).tree["s"].type = "dataset"
    /\ last.to = RefName("MIKE")
    /\ Len(last.results) = 1
    /\ last.results[1].status = "impossible"
    /\ last.results[1].message = RefName("MIKE")

\* the dataset at the link path "s" and its repository
Inner == Join(Root, "s")

InnerRepo == repo.disk["s"].sub

\* the last diff reported the link "s" of the dataset in this state
LinkDiffed(state) ==
    \E i \in 1..Len(last.results) :
        /\ last.results[i].path = Inner
        /\ last.results[i].parentds = Root
        /\ last.results[i].status = "ok"
        /\ last.results[i].type = "dataset"
        /\ last.results[i].state = state

\* the last diff reported the path p of the subdataset in one of the states
NestedRecord(p, states) ==
    \E i \in 1..Len(last.results) :
        /\ last.results[i].path = Join(Inner, p)
        /\ last.results[i].parentds = Inner
        /\ last.results[i].status = "ok"
        /\ last.results[i].state \in states

\* the commit of the subdataset that the `from` endpoint of the dataset
\* records for the link, and the one its `to` endpoint records
PriorTree == Resolve(InnerRepo, RefSha(Resolve(repo, last.fr).tree["s"].sha))

NewTree == Resolve(InnerRepo, RefSha(Resolve(repo, last.to).tree["s"].sha))

\* what the nested endpoint records at p: the staged entry when the diff
\* ends at the worktree, the entry of the newly recorded commit otherwise
EndEntry(p) == IF last.to = None THEN InnerRepo.index[p] ELSE NewTree.tree[p]

\* the nested worktree holds at p what is staged there
AsStaged(p) ==
    IF InnerRepo.index[p].type = "none"
    THEN InnerRepo.disk[p].kind = "absent"
    ELSE WtEntry(InnerRepo.disk[p]) = InnerRepo.index[p]

\* the path p differs between the tree and the nested endpoint
DiffersFrom(tree, p) ==
    \/ tree[p] # EndEntry(p)
    \/ last.to = None /\ ~AsStaged(p)

\* the nested endpoint has something at p
AtEndpoint(p) ==
    \/ EndEntry(p).type # "none"
    \/ last.to = None /\ InnerRepo.disk[p].kind # "absent"

\* a recursive diff (one whose recursion limit lets it enter a subdataset) of
\* a dataset whose link "s" holds a repository that has the commits the
\* endpoints record
NestedDiff(state) ==
    /\ DiffDone
    /\ RecursionLevel(last.recursive, last.recursion_limit) # 0
    /\ LinkDiffed(state)
    /\ repo.disk["s"].kind = "repo"
    /\ last.to # None => NewTree.ok
    /\ state = "modified" => PriorTree.ok

\* all tracked content of a subdataset whose link is `added` is reported as
\* `added`, and nothing else is reported but content that is not tracked
AddedFromScratch ==
    NestedDiff("added") =>
        \A p \in Paths :
            /\ EndEntry(p).type # "none" => NestedRecord(p, {"added"})
            /\ EndEntry(p).type = "none" =>
                    ~NestedRecord(p, States \ {"untracked"})
            /\ NestedRecord(p, {"untracked"}) => last.to = None

Candidates ==
    {sm \in Keys : \E i \in 1..Len(to_add_submodules(last.pre, NotClean(SaveReport.st))) :
                        to_add_submodules(last.pre, NotClean(SaveReport.st))[i] = sm}

\* the last save yielded an `error` result of the registration of p
RegistrationError(p) ==
    \E i \in 1..Len(last.results) :
        /\ last.results[i].action = "add_submodule"
        /\ last.results[i].path = p
        /\ last.results[i].status = "error"

\* C21: when the registration of a candidate directory fails during a save,
\* an `error` result is yielded for that path, every other candidate is still
\* registered or reported, the add and remove steps still run for the other
\* paths, and the commit is still made.
C21_RegistrationFailure ==
    /\ last.op \in {"save", "rev_save"}
    /\ ~SaveReport.raised
    /\ \E c \in Candidates : AddSubmoduleFails(last.pre, c)
    => /\ ~last.raised
       /\ \A c \in Candidates :
            IF AddSubmoduleFails(last.pre, c) THEN RegistrationError(c)
            ELSE c \in Registered
       /\ to_add(last.st) \subseteq PassedTo("add")
       /\ to_remove(last.st) \subseteq PassedTo("remove")
       /\ PassedTo("commit") = KeysOf(last.st)

\* ---- C22: what the commit names
\* the last save issued a commit
CommitIssued == \E i \in 1..Len(last.log) : last.log[i].op = "commit"

\* the records the last save worked from: the report without its clean records
WorkingStatus == NotClean(SaveReport.st)

Promoted ==
    /\ last.op \in {"save", "rev_save"}
    /\ ~SaveReport.raised
    /\ KeysOf(WorkingStatus) # {}

\* C23 as stated: after the promotion step the working status has the
\* registry file marked modified if and only if a registration succeeded.
C23_AsStated ==
    Promoted =>
        (last.st[GM].has /\ last.st[GM].state = "modified" <=> Registered # {})

\* C23 amended: when a registration succeeded the promotion step marks the
\* registry file as a modified file in the working status, whatever record
\* the report had for it; when none was attempted or all failed the working
\* status is the report without its clean records, with the record of the
\* registry file, if any, as the report had it.
C23_RegistryMarked ==
    Promoted =>
        last.st = IF Registered # {}
                  THEN [WorkingStatus EXCEPT ![GM] = Rec("modified", "file", 0)]
                  ELSE WorkingStatus

\* a save that registered a link while its report had no modified record of
\* the registry file
C23_Witness ==
    /\ Promoted /\ ~last.raised
    /\ Registered # {}
    /\ ~(WorkingStatus[GM].has /\ WorkingStatus[GM].state = "modified")
    /\ last.st[GM] = Rec("modified", "file", 0)

\* ---- C24: the short-circuit of the descent
\* the record the last status call had for f after classification, before it
\* looked into any subdataset
Classified(f) ==
    Classify(last.pre, f, LastWt, LastHead, LastModified, last.kw.ignore)

\* the descent of the last status call found the link g modified
FoundModified(g) ==
    /\ Classified(g).has /\ Classified(g).state = "clean"
    /\ g \in last.compared
    /\ last.st[g].state = "modified"

AnnexInfoDone == last.op \in {"annexinfo", "seeded"}

\* the map the last call started from
Seeded ==
    IF last.init.kind = "git" THEN GitInfo(last.pre, last.paths, last.ref)
    ELSE last.init.info

\* the candidate locations of the content of p that exist, the mixed layout
\* first
Candidates25(p) ==
    CASE last.pre[p].loc \in {"mixed", "both"} -> <<"mixed">>
      [] last.pre[p].loc = "lower" -> <<"lower">>
      [] OTHER -> <<>>

\* C25: a call with eval_availability returns a map in which every record
\* with a key has its availability resolved: a record that carried one keeps
\* it, any other is available at the first candidate location that exists,
\* the mixed layout before the lower one, and unavailable when neither
\* exists; a record without a key is as it was.
C25_Availability ==
    AnnexInfoDone /\ last.eval_availability =>
        \A p \in AnnexPaths :
            IF ~last.info[p].has \/ last.info[p].key = ""
            THEN last.info[p] = Seeded[p]
            ELSE IF Seeded[p].avail # ""
            THEN /\ last.info[p].avail = Seeded[p].avail
                 /\ last.info[p].objloc = Seeded[p].objloc
            ELSE IF Candidates25(p) = <<>>
            THEN last.info[p].avail = "false" /\ last.info[p].objloc = <<>>
            ELSE /\ last.info[p].avail = "true"
                 /\ last.info[p].objloc = <<Candidates25(p)[1], last.info[p].key>>

\* C26: a call with a map of the caller as init returns a map with exactly
\* the keys of that map; what the annex reports for another path is not
\* added.
C26_SeedLimits ==
    AnnexInfoDone /\ last.init.kind = "seed" =>
        \A p \in AnnexPaths : last.info[p].has <=> last.init.info[p].has

\* ---- C27: the descent decision of a recursive diff (checked under DiffSpec)
\* the recursion level of the diff that yielded the i-th result: that of the
\* call for a record of the dataset itself, one less for each dataset entered
LevelAt(i) ==
    IF last.results[i].parentds = Root
    THEN RecursionLevel(last.recursive, last.recursion_limit)
    ELSE RecursionLevel(last.recursive, last.recursion_limit) - 1

\* a result after the i-th one comes from the diff of the dataset at its
\* path: a record of its content, or the result that an endpoint of the
\* nested diff cannot be resolved
DescendedAt(i) ==
    \E j \in (i + 1)..Len(last.results) :
        \/ last.results[j].parentds = last.results[i].path
        \/ /\ last.results[j].status = "impossible"
           /\ last.results[j].path = last.results[i].path

C28_ReportedOnce ==
    last.op = "rev_status" =>
        /\ \A i, j \in 1..Len(last.queries) :
                last.queries[i] = last.queries[j] => i = j
        /\ \A i, j \in 1..Len(last.results) :
                last.results[i].path = last.results[j].path => i = j

\* ---- C29: the order of the changes to the store
\* the place of a command in the order of a save
Phase(op) ==
    CASE op = "add_submodule" -> 1
      [] op = "add" -> 2
      [] op = "remove" -> 3
      [] op = "commit" -> 4

\* C29: the commands by which one save changes the store run in the order
\* link registrations, one add, one remove, one commit, each but the
\* registrations at most once and the commit last; the commit runs only when
\* every result of the save has been yielded, so that a consumer that stops
\* taking results has the changes staged so far and no commit.
C29_MutationOrder ==
    last.op \in {"save", "rev_save"} =>
        /\ \A i, j \in 1..Len(last.log) :
                i < j =>
                    /\ Phase(last.log[i].op) <= Phase(last.log[j].op)
                    /\ Phase(last.log[i].op) = Phase(last.log[j].op) =>
                            last.log[i].op = "add_submodule"
                    /\ last.log[i].at <= last.log[j].at
        /\ \A i \in 1..Len(last.log) :
                last.log[i].op = "commit" =>
                    /\ i = Len(last.log)
                    /\ last.log[i].at = Len(last.results)
        /\ \A i \in 1..Len(last.log), k \in 1..Len(last.results) :
                last.results[k].action \in {"add", "remove"}
                /\ last.log[i].op = last.results[k].action =>
                    last.log[i].at < k

\* a save that registered a link, staged an addition and a removal, yielded
\* results for them and committed after the last one
C29_Witness ==
    /\ SaveDone /\ Committed
    /\ Len(last.log) >= 4
    /\ \A op \in {"add_submodule", "add", "remove", "commit"} :
            \E i \in 1..Len(last.log) : last.log[i].op = op
    /\ \E k \in 1..Len(last.results) : last.results[k].action = "remove"
    /\ \E k \in 1..Len(last.results) : last.results[k].action = "add"
    /\ last.log[Len(last.log)].at = Len(last.results)

\* ---- C30: the short-circuit and the exhaustive descent
\* the report of the last status call had it been made with
\* ignore_submodules='no'
Exhaustive == status(last.pre, last.paths, last.kw.untracked, "no")

\* C30: a status call with ignore_submodules='other' and the same call with
\* 'no' agree on whether any record is not clean and on every record that is
\* not of a dataset; they differ at most in records of datasets that come
\* after the first link the descent found modified.
C30_SameAnswer ==
    StatusDone /\ last.kw.ignore = "other" =>
        /\ ~Exhaustive.raised
        /\ AnyDirty(last.st) <=> AnyDirty(Exhaustive.st)
        /\ \A k \in Keys :
            last.st[k] # Exhaustive.st[k] =>
                /\ last.st[k].has /\ Exhaustive.st[k].has
                /\ last.st[k].type = "dataset" /\ Exhaustive.st[k].type = "dataset"
                /\ \E g \in Keys : FoundModified(g) /\ Before(g, k)

\* the link s was found modified; the dirty link t after it is clean in the
\* report of the short-circuit and modified in the exhaustive one, and both
\* reports have the same record of the modified file a
C30_Witness ==
    /\ StatusDone /\ last.kw.ignore = "other"
    /\ FoundModified("s")
    /\ last.st["t"].state = "clean" /\ Exhaustive.st["t"].state = "modified"
    /\ last.st["a"].has /\ last.st["a"].state = "modified"
    /\ Exhaustive.st["a"] = last.st["a"]


====
